---- MODULE Spec2Model ----
(***************************************************************************)
(* A model of the photogrammetry helpers (photogrammetry/ModelHelpers.py)  *)
(* and of the model-build orchestrator (photogrammetry/MetashapeTools.py). *)
(* Each part of the program has its own specification over its own         *)
(* variables; the variables of the other parts stay at their idle values.  *)
(***************************************************************************)
EXTENDS Integers, Sequences, FiniteSets, TLC

\* ------------------------------------------------------------------ bounds
\* Largest sparse cloud (number of tie points) that is enumerated.
MaxPoints == 4
\* Error values of tie points and thresholds range over 0..MaxErrVal.
MaxErrVal == 3
\* Removal fractions are the exact rationals n/FracDen, n in 0..FracDen.
FracDen == 4
\* Longest scalebar definitions list of a palette.
MaxDefs == 2
\* Calls of build_scalebars_from_list in a row on one chunk.
MaxCalls == 2
\* Most markers on a chunk that is reoriented.
MaxMarkers == 3
\* Calls of reorient_model in a row on one chunk.
MaxReorients == 2

\* --------------------------------------------------------------- variables
VARIABLES
    \* remove_above_error_threshold
    points,                   \* errorfilter.values: the error of each tie point
    max_error,                \* the threshold passed in
    max_points,               \* the fraction passed in, as max_points/FracDen
    before,                   \* the cloud as it was when the call was made
    removed_above_threshold,  \* the value the call returned
    rpc                       \* "ready" before the call, "done" after it

removeVars == <<points, max_error, max_points, before, removed_above_threshold, rpc>>

VARIABLES
    \* build_scalebars_from_list
    markers,          \* chunk.markers: the numbers N of the markers "target N"
    scalebars,        \* chunk.scalebars, in the order they were added
    bars,             \* palette["scalebars"]["bars"], the definitions list
    chunk_accuracy,   \* the accuracy priors of the chunk
    transform_updates,\* how often chunk.updateTransform() has recomputed the transform
    barsBefore,       \* chunk.scalebars as they were when the last call was made
    sbcalls           \* calls of build_scalebars_from_list so far, -1 when idle

scalebarVars == <<markers, scalebars, bars, chunk_accuracy, transform_updates,
                  barsBefore, sbcalls>>

VARIABLES
    \* build_basic_model
    psx_exists,     \* os.path.exists(projectpath)
    psx,            \* the chunks of the project file as last saved
    doc,            \* doc.chunks of the document in memory
    bpc,            \* the position of the run, "idle" between runs
    decimate,       \* the decimate argument of the run
    palette,        \* config["palette"]: "None", or the scalebar scheme of the palette
    export_as,      \* config["export_as"]
    current_chunk,  \* the index in doc.chunks of current_chunk, 0 before it is set
    c,              \* the index of the chunk of the running for loop
    ops,            \* the stages this run has executed, in order
    exports,        \* the exportModel calls of this run, in order
    start,          \* doc.chunks as the run found them after opening the project
    unsaved,        \* the stage that changed the document since the last save, "" if none
    exc,            \* the exception raised in the try block, "" if none
    logged,         \* what get_logger().error was given
    raised,         \* the exception that left build_basic_model
    teardown,       \* the finally clause has replaced the document handle
    timing,         \* the 'model build' timing event: "none", "started", "ended"
    result          \* how the last run ended: "none", "running", "returned", "raised", "killed"

buildVars == <<psx_exists, psx, doc, bpc, decimate, palette, export_as, current_chunk,
               c, ops, exports, start, unsaved, exc, logged, raised, teardown, timing,
               result>>

VARIABLES
    \* reorient_model
    chunk_markers,  \* chunk.markers in order: the number N of "target N" and the position
    transform,      \* chunk.transform.matrix, a 4x4 matrix of integers
    region_center,  \* chunk.region.center
    cloud_center,   \* the center of the region that chunk.resetRegion() computes
    ro_log,         \* what the last call of reorient_model did, in order
    ro_result,      \* how it ended: "none", "returned" or the exception it raised
    ro_before,      \* the transform and the region center when the last call was made
    ro_calls        \* calls of reorient_model so far, -1 when idle

reorientVars == <<chunk_markers, transform, region_center, cloud_center, ro_log,
                  ro_result, ro_before, ro_calls>>

VARIABLES
    \* cleanup_blobs
    has_model,      \* chunk.model is not None
    faces,          \* the face count of each connected component of chunk.model
    cb_before,      \* the components as they were when the call was made
    cb_pc           \* "ready" before the call, "done" after it, "idle" when unused

cleanupVars == <<has_model, faces, cb_before, cb_pc>>

VARIABLES
    \* ptsToClockwiseRect
    pts,            \* the four points passed in, each <<x, y>>
    rect,           \* the array returned, <<>> before the call
    oc_pc           \* "ready" before the call, "done" after it, "idle" when unused

cornersVars == <<pts, rect, oc_pc>>

VARIABLES
    \* get_exif_data
    exif_tags,      \* the codes of the top-level tags that pi.getexif() holds
    exif_ifds,      \* for each IFD code among them, the codes of the tags of that block
    exif,           \* the keys of the mapping returned, {} before the call
    ex_result,      \* "none", "returned", or the exception the call raised
    ex_pc           \* "ready" before the call, "done" after it, "idle" when unused

exifVars == <<exif_tags, exif_ifds, exif, ex_result, ex_pc>>

VARIABLES
    \* process_image
    filepath,         \* the source path, a sequence of characters
    output,           \* the output directory exists
    Destination_Type, \* config["Destination_Type"], a sequence of characters
    converter,        \* the converter that was called, "" if none
    processedpath,    \* the path returned, <<>> for the empty string
    pi_pc             \* "ready" before the call, "done" after it, "idle" when unused

processVars == <<filepath, output, Destination_Type, converter, processedpath, pi_pc>>

VARIABLES
    \* convert_unit_to_meters
    cu_unit,        \* the unit string passed in
    cu_val,         \* the value passed in
    meters,         \* the value returned, in thousandths of a metre
    cu_pc           \* "ready" before the call, "done" after it, "idle" when unused

unitVars == <<cu_unit, cu_val, meters, cu_pc>>

VARIABLES
    \* find_axes_from_markers
    ax_markers,     \* chunk.markers in order: the number N of "target N" and the position
    ax_axes,        \* what the call gave: the list of axes, or how it failed
    ax_pc           \* "ready" before the call, "done" after it, "idle" when unused

axesVars == <<ax_markers, ax_axes, ax_pc>>

VARIABLES
    \* thresholdSelectCommand
    args_type,        \* args.type
    args_thresholds,  \* args.thresholds: [given |-> FALSE] for None, or the text given
    outparent_exists, \* outpath.parent.exists()
    config_lower,     \* config["thresholding_lower_gray_threshold"]
    mask_call,        \* the masking routine called and the thresholds it was given
    ts_result,        \* "none", "returned", or the exception the command raised
    ts_pc             \* "ready" before the command, "done" after it, "idle" when unused

maskVars == <<args_type, args_thresholds, outparent_exists, config_lower, mask_call,
              ts_result, ts_pc>>

VARIABLES
    \* refine_sparse_cloud, the reprojection-error phase
    tie_points,     \* chunk.tie_points: the reprojection error of each point
    reprojection_error,       \* error_thresholds["reprojection_error"]
    reprojection_max_selection,  \* the total fraction, as n/FracDen
    reprojection_max_selection_per_iteration,  \* the fraction of one iteration, as n/FracDen
    rf_num_points,     \* the local num_points of refine_sparse_cloud
    start_points,   \* the point count when the phase began
    iter_points,    \* the point count when the running iteration began
    reachedgoal,    \* the local reachedgoal
    rf_pc           \* "while", "remove", "optimize", "final", "done"; "idle" when unused

refineVars == <<tie_points, reprojection_error, reprojection_max_selection,
                reprojection_max_selection_per_iteration, rf_num_points, start_points,
                iter_points, reachedgoal, rf_pc>>

VARIABLES
    \* refine_sparse_cloud, its calls and saves
    ck_points,      \* len(chunk.tie_points.points)
    ck_thresholds,  \* the reprojection entries of config["error_thresholds"]
    ck_num_points,  \* the local num_points
    ck_start,       \* num_points when the reprojection phase began
    ck_reachedgoal, \* the local reachedgoal
    ck_unsaved,     \* the call made since the last doc.save(), "" if none
    ck_followed,    \* what ck_unsaved was when the latest call was made
    ck_pc           \* the line about to run; "done" after the return, "idle" when unused

checkpointVars == <<ck_points, ck_thresholds, ck_num_points, ck_start, ck_reachedgoal,
                    ck_unsaved, ck_followed, ck_pc>>

\* The state of the helpers that are called on their own.
helperVars ==
    <<cleanupVars, cornersVars, exifVars, processVars, unitVars, axesVars, maskVars, refineVars, checkpointVars>>

\* The state of the parts that run on the photogrammetry engine.
engineVars == <<removeVars, scalebarVars, buildVars, reorientVars>>

vars == <<engineVars, helperVars>>

\* What a call of one helper leaves alone.
otherThanCleanup ==
    <<engineVars, cornersVars, exifVars, processVars, unitVars, axesVars, maskVars, refineVars, checkpointVars>>
otherThanCorners ==
    <<engineVars, cleanupVars, exifVars, processVars, unitVars, axesVars, maskVars, refineVars, checkpointVars>>
otherThanExif ==
    <<engineVars, cleanupVars, cornersVars, processVars, unitVars, axesVars, maskVars, refineVars, checkpointVars>>
otherThanProcess ==
    <<engineVars, cleanupVars, cornersVars, exifVars, unitVars, axesVars, maskVars, refineVars, checkpointVars>>
otherThanUnit ==
    <<engineVars, cleanupVars, cornersVars, exifVars, processVars, axesVars, maskVars, refineVars, checkpointVars>>
otherThanAxes ==
    <<engineVars, cleanupVars, cornersVars, exifVars, processVars, unitVars, maskVars, refineVars, checkpointVars>>
otherThanMask ==
    <<engineVars, cleanupVars, cornersVars, exifVars, processVars, unitVars, axesVars, refineVars, checkpointVars>>
otherThanRefine ==
    <<engineVars, cleanupVars, cornersVars, exifVars, processVars, unitVars, axesVars, maskVars, checkpointVars>>
otherThanCheckpoint ==
    <<engineVars, cleanupVars, cornersVars, exifVars, processVars, unitVars, axesVars, maskVars, refineVars>>

\* ------------------------------------------------------ sequence utilities
Range(s) == {s[i] : i \in 1..Len(s)}

SeqsUpTo(S, n) == UNION {[1..k -> S] : k \in 0..n}

RECURSIVE InsertDesc(_, _)
InsertDesc(v, s) ==
    IF s = <<>> THEN <<v>>
    ELSE IF v >= Head(s) THEN <<v>> \o s
    ELSE <<Head(s)>> \o InsertDesc(v, Tail(s))

\* errorvals.sort(reverse=True)
RECURSIVE SortDesc(_)
SortDesc(s) == IF s = <<>> THEN <<>> ELSE InsertDesc(Head(s), SortDesc(Tail(s)))

\* ------------------------------------------- remove_above_error_threshold
\* The scan condition of the loop: the value is over the threshold and the
\* 1-based position is within max_removal = num_points*max_points.
ScanContinues(v, i, num_points, maxerr, maxpts) ==
    v > maxerr /\ (i + 1) * FracDen <= num_points * maxpts

\* The 0-based index at which the loop takes its else branch, or -1 when the
\* loop runs off the end of errorvals without taking it.
RECURSIVE StopIndex(_, _, _, _)
StopIndex(errorvals, i, maxerr, maxpts) ==
    IF i >= Len(errorvals) THEN -1
    ELSE IF ScanContinues(errorvals[i + 1], i, Len(errorvals), maxerr, maxpts)
         THEN StopIndex(errorvals, i + 1, maxerr, maxpts)
         ELSE i

\* A flipped comparison in the returned flag.
ReturnFlagFlipped(v, maxerr) == v >= maxerr

\* removed_above_threshold=(v<=max_error)
ReturnFlag(v, maxerr) == v <= maxerr

\* A selection that also takes the points equal to the threshold.
selectPointsInclusive(vals, threshold) == {i \in 1..Len(vals) : vals[i] >= threshold}

\* errorfilter.selectPoints(v): the engine's gradual selection selects the
\* points whose criterion value is above the threshold.
selectPoints(vals, threshold) == {i \in 1..Len(vals) : vals[i] > threshold}

\* tiepoints.removeSelectedPoints(): the unselected points, in their order.
RECURSIVE removeSelectedPoints(_, _, _)
removeSelectedPoints(vals, selected, i) ==
    IF i > Len(vals) THEN <<>>
    ELSE (IF i \in selected THEN <<>> ELSE <<vals[i]>>)
         \o removeSelectedPoints(vals, selected, i + 1)

remove_above_error_threshold ==
    /\ rpc = "ready"
    /\ LET errorvals == SortDesc(points)
           stop == StopIndex(errorvals, 0, max_error, max_points)
       IN IF stop = -1
          THEN /\ points' = points
               /\ removed_above_threshold' = FALSE
          ELSE LET v == errorvals[stop + 1]
               IN /\ points' = removeSelectedPoints(points, selectPoints(points, v), 1)
                  /\ removed_above_threshold' = ReturnFlag(v, max_error)
    /\ before' = points
    /\ rpc' = "done"
    /\ UNCHANGED <<max_error, max_points>>
    /\ UNCHANGED <<scalebarVars, buildVars, reorientVars, helperVars>>

\* A new call on the cloud that the previous call left.
RemoveAgain ==
    /\ rpc = "done"
    /\ rpc' = "ready"
    /\ \E e \in 0..MaxErrVal, f \in 0..FracDen :
         /\ max_error' = e
         /\ max_points' = f
    /\ UNCHANGED <<points, before, removed_above_threshold>>
    /\ UNCHANGED <<scalebarVars, buildVars, reorientVars, helperVars>>

RemoveIdle ==
    /\ points = <<>> /\ max_error = 0 /\ max_points = 0
    /\ before = <<>> /\ removed_above_threshold = FALSE /\ rpc = "idle"

InitRemove ==
    /\ points \in SeqsUpTo(0..MaxErrVal, MaxPoints)
    /\ max_error \in 0..MaxErrVal
    /\ max_points \in 0..FracDen
    /\ before = <<>>
    /\ removed_above_threshold = FALSE
    /\ rpc = "ready"

NextRemove == remove_above_error_threshold \/ RemoveAgain

\* ------------------------------------------------ build_scalebars_from_list
\* Marker numbers a palette or a chunk may name.
MarkerNumbers == {1, 2, 3}

\* Unit strings a palette may use.
Units == {"cm", "mm", "km", "CM", "m"}

\* str.lower(unit)
Lower(unit) ==
    CASE unit \in {"CM", "Cm"} -> "cm"
      [] unit \in {"MM", "Mm"} -> "mm"
      [] unit \in {"KM", "Km"} -> "km"
      [] unit = "M" -> "m"
      [] OTHER -> unit

\* A conversion that takes km as a thousand metres.
convert_unit_to_meters_km1000(u, v) ==
    IF Lower(u) = "km" THEN v * 1000 * 1000
    ELSE IF Lower(u) = "cm" THEN v * 10
    ELSE IF Lower(u) = "mm" THEN v
    ELSE v * 1000

\* The converted value in thousandths of a metre (val*0.01 m is val*10 of them).
convert_unit_to_meters(unit, val) ==
    LET u == Lower(unit)
    IN IF u = "cm" THEN val * 10
       ELSE IF u = "mm" THEN val * 1
       ELSE IF u = "km" THEN val * 100 * 1000
       ELSE val * 1000

\* The priors set_chunk_accuracy writes: 0.25 and 0.5 pixels in hundredths,
\* 5.0e-5 metres in units of 1.0e-5.
set_chunk_accuracy ==
    [tiepoint_accuracy |-> 25, marker_projection_accuracy |-> 50,
     marker_location_accuracy |-> 5]

NoAccuracy ==
    [tiepoint_accuracy |-> 0, marker_projection_accuracy |-> 0,
     marker_location_accuracy |-> 0]

\* The marker lookup of one definition: <<marker1, marker2>>, 0 standing for
\* None. A marker whose label is name1 is never taken as marker2 (the elif).
FindMarkers(ms, definition) ==
    LET n1 == definition.points[1]
        n2 == definition.points[2]
    IN <<IF n1 \in ms THEN n1 ELSE 0,
         IF n2 \in ms /\ n2 # n1 THEN n2 ELSE 0>>

\* A test that never finds an existing scalebar.
BarMatchesNever(existingbar, marker1, marker2) == FALSE

\* The test of line 93, as written (point0 is compared with marker1 twice).
BarMatches(existingbar, marker1, marker2) ==
    /\ (existingbar.point0 = marker1 \/ existingbar.point0 = marker1)
    /\ (existingbar.point0 = marker2 \/ existingbar.point1 = marker2)

\* The index of the first existing scalebar that passes the test, 0 for None.
FindScalebar(sbs, marker1, marker2) ==
    LET hits == {i \in 1..Len(sbs) : BarMatches(sbs[i], marker1, marker2)}
    IN IF hits = {} THEN 0 ELSE CHOOSE i \in hits : \A j \in hits : i <= j

\* chunk.addScalebar(marker1, marker2): a scalebar with an unset reference.
addScalebar(marker1, marker2) ==
    [point0 |-> marker1, point1 |-> marker2,
     distance |-> 0, accuracy |-> 0, enabled |-> FALSE]

\* The reference written at lines 98 to 100 (accuracy 1.0e-5 in units of 1.0e-5).
SetReference(bar, definition) ==
    [bar EXCEPT !.distance = convert_unit_to_meters(definition.units, definition.distance),
                !.accuracy = 1,
                !.enabled = TRUE]

\* The body of the loop over the definitions for one definition.
ApplyDefinition(sbs, ms, definition) ==
    LET found == FindMarkers(ms, definition)
        marker1 == found[1]
        marker2 == found[2]
    IN IF marker1 # 0 /\ marker2 # 0
       THEN LET at == FindScalebar(sbs, marker1, marker2)
            IN IF at = 0
               THEN Append(sbs, SetReference(addScalebar(marker1, marker2), definition))
               ELSE [sbs EXCEPT ![at] = SetReference(sbs[at], definition)]
       ELSE sbs

RECURSIVE ApplyDefinitions(_, _, _)
ApplyDefinitions(sbs, ms, scalebardefinitions) ==
    IF scalebardefinitions = <<>> THEN sbs
    ELSE ApplyDefinitions(ApplyDefinition(sbs, ms, Head(scalebardefinitions)),
                          ms, Tail(scalebardefinitions))

build_scalebars_from_list ==
    /\ sbcalls >= 0 /\ sbcalls < MaxCalls
    /\ chunk_accuracy' = set_chunk_accuracy
    /\ scalebars' = ApplyDefinitions(scalebars, markers, bars)
    /\ transform_updates' = transform_updates + 1
    /\ barsBefore' = scalebars
    /\ sbcalls' = sbcalls + 1
    /\ UNCHANGED <<markers, bars>>
    /\ UNCHANGED <<removeVars, buildVars, reorientVars, helperVars>>

\* The definitions a palette may hold: two different markers, a distance, a unit.
Definitions ==
    {[points |-> p, distance |-> d.distance, units |-> d.units] :
        p \in {q \in MarkerNumbers \X MarkerNumbers : q[1] # q[2]},
        d \in {[distance |-> 5, units |-> "cm"], [distance |-> 20, units |-> "CM"],
               [distance |-> 7, units |-> "mm"]}}

\* The scalebars a chunk may hold before the first call: none, or one between
\* two of its markers that is not yet referenced.
ExistingScalebars(ms) ==
    {<<>>} \cup {<<addScalebar(p[1], p[2])>> : p \in {q \in ms \X ms : q[1] # q[2]}}

ScalebarIdle ==
    /\ markers = {} /\ scalebars = <<>> /\ bars = <<>>
    /\ chunk_accuracy = NoAccuracy /\ transform_updates = 0
    /\ barsBefore = <<>> /\ sbcalls = -1

InitScalebars ==
    /\ markers \in SUBSET MarkerNumbers
    /\ scalebars \in ExistingScalebars(markers)
    /\ bars \in SeqsUpTo(Definitions, MaxDefs)
    /\ chunk_accuracy = NoAccuracy
    /\ transform_updates = 0
    /\ barsBefore = <<>>
    /\ sbcalls = 0

NextScalebars == build_scalebars_from_list

\* --------------------------------------------------------- build_basic_model
\* doc.addChunk(): a chunk with no photos and no assets.
addChunk ==
    [lowpoly |-> FALSE, cameras |-> FALSE, point_cloud |-> FALSE, markers |-> FALSE,
     model |-> FALSE, scalebars |-> FALSE, textures |-> FALSE]

\* The values config["palette"] stands for: no palette, a palette without
\* scalebars, and a palette with scalebars of type explicit or sequential.
Palettes == {"None", "axes", "explicit", "sequential"}

\* The values of config["export_as"].
ExportSettings == {"none", ".ply", ".obj", "all"}

\* cleanup_blobs leaves the chunk with its model (a model with fewer components).
cleanup_blobs(chunk) == chunk

\* close_holes fills the holes of the mesh with the engine's hole filling; the
\* chunk keeps its model.
close_holes(chunk) == chunk

\* The guards of the stages, as the conditions of the if statements.
NeedsPhotosAlways(chunk) == TRUE

NeedsPhotos(chunk) == ~chunk.cameras

NeedsSparseCloudAlways(chunk) == TRUE

NeedsSparseCloud(chunk) == ~chunk.point_cloud

NeedsMarkers(chunk) == palette # "None" /\ ~chunk.markers

NeedsRefine(chunk) == chunk.point_cloud /\ ~chunk.model

NeedsModel(chunk) == ~chunk.model

NeedsScalebars(chunk) == palette \in {"explicit", "sequential"} /\ ~chunk.scalebars

NeedsLowPolyAlways == decimate

NeedsLowPoly == decimate /\ Len(doc) < 2

NeedsTexture(chunk) == ~chunk.textures

\* reorient_model raises on a chunk without markers: find_axes_from_markers
\* returns None there and len(None) is a TypeError.
ReorientRaises(chunk) == palette # "None" /\ ~chunk.markers

\* The extensions the export loop writes for a setting.
outputtypes(ext) ==
    IF ext = "none" THEN <<>>
    ELSE IF ext = "all" THEN <<".ply", ".obj">>
    ELSE <<ext>>

\* The exportModel calls for chunk i: embed_texture=(extn=="ply").
RECURSIVE exportModel(_, _)
exportModel(i, types) ==
    IF types = <<>> THEN <<>>
    ELSE <<[chunk |-> i, extn |-> Head(types), embed_texture |-> (Head(types) = "ply")]>>
         \o exportModel(i, Tail(types))

Op(name, i) == [op |-> name, chunk |-> i]

\* doc.save(): the project file holds what the document holds.
Save(chunks) ==
    /\ psx' = chunks
    /\ psx_exists' = TRUE
    /\ unsaved' = ""

NoSave(stage) ==
    /\ unsaved' = stage
    /\ UNCHANGED <<psx, psx_exists>>

Skip == UNCHANGED <<doc, psx, psx_exists, unsaved, ops>>

RunVars == <<decimate, palette, export_as, start, exc, logged, raised, teardown,
             timing, result, exports>>

\* Lines 62 to 75: the timing event starts, the palette is loaded, the output
\* directory is made and a fresh document is created.
Invoke ==
    /\ bpc = "idle"
    /\ \E d \in BOOLEAN : decimate' = d
    /\ timing' = "started"
    /\ doc' = <<>>
    /\ bpc' = "open"
    /\ current_chunk' = 0 /\ c' = 0
    /\ ops' = <<>> /\ exports' = <<>> /\ start' = <<>>
    /\ unsaved' = ""
    /\ exc' = "" /\ logged' = "" /\ raised' = "" /\ teardown' = FALSE
    /\ result' = "running"
    /\ UNCHANGED <<psx, psx_exists, palette, export_as>>
    /\ UNCHANGED <<removeVars, scalebarVars, reorientVars, helperVars>>

\* Lines 77 to 80: open the project if it exists, then save it.
OpenProject ==
    /\ bpc = "open"
    /\ doc' = IF psx_exists THEN psx ELSE doc
    /\ start' = doc'
    /\ Save(doc')
    /\ bpc' = "chunk"
    /\ UNCHANGED <<decimate, palette, export_as, current_chunk, c, ops, exports,
                   exc, logged, raised, teardown, timing, result>>
    /\ UNCHANGED <<removeVars, scalebarVars, reorientVars, helperVars>>

\* Lines 82 to 90: the first chunk, created when the document has none.
EnsureChunk ==
    /\ bpc = "chunk"
    /\ IF Len(doc) = 0
       THEN /\ doc' = Append(doc, addChunk)
            /\ current_chunk' = Len(doc')
            /\ Save(doc')
       ELSE /\ current_chunk' = 1
            /\ UNCHANGED <<doc, psx, psx_exists, unsaved>>
    /\ bpc' = "load"
    /\ UNCHANGED <<c, ops, RunVars>>
    /\ UNCHANGED <<removeVars, scalebarVars, reorientVars, helperVars>>

\* Lines 93 to 96: load_photos and load_masks; no save follows.
LoadPhotos ==
    /\ bpc = "load"
    /\ IF NeedsPhotos(doc[current_chunk])
       THEN /\ doc' = [doc EXCEPT ![current_chunk].cameras = TRUE]
            /\ ops' = Append(ops, Op("load_photos", current_chunk))
            /\ NoSave("load_photos")
       ELSE Skip
    /\ bpc' = "match"
    /\ UNCHANGED <<current_chunk, c, RunVars>>
    /\ UNCHANGED <<removeVars, scalebarVars, reorientVars, helperVars>>

\* Lines 99 to 111: matchPhotos, alignCameras, save.
MatchPhotos ==
    /\ bpc = "match"
    /\ IF NeedsSparseCloud(doc[current_chunk])
       THEN /\ doc' = [doc EXCEPT ![current_chunk].point_cloud = TRUE]
            /\ ops' = Append(ops, Op("match_photos", current_chunk))
            /\ Save(doc')
       ELSE Skip
    /\ bpc' = "markers"
    /\ UNCHANGED <<current_chunk, c, RunVars>>
    /\ UNCHANGED <<removeVars, scalebarVars, reorientVars, helperVars>>

\* Lines 113 to 117: detect_markers, which finds markers or finds none, save.
DetectMarkers ==
    /\ bpc = "markers"
    /\ IF NeedsMarkers(doc[current_chunk])
       THEN /\ \E found \in BOOLEAN :
                 doc' = [doc EXCEPT ![current_chunk].markers = found]
            /\ ops' = Append(ops, Op("detect_markers", current_chunk))
            /\ Save(doc')
       ELSE Skip
    /\ bpc' = "refine"
    /\ UNCHANGED <<current_chunk, c, RunVars>>
    /\ UNCHANGED <<removeVars, scalebarVars, reorientVars, helperVars>>

\* Lines 118 to 121: refine_sparse_cloud (which saves as it goes), save.
RefineSparseCloud ==
    /\ bpc = "refine"
    /\ IF NeedsRefine(doc[current_chunk])
       THEN /\ ops' = Append(ops, Op("refine_sparse_cloud", current_chunk))
            /\ doc' = doc
            /\ Save(doc')
       ELSE Skip
    /\ bpc' = "build"
    /\ UNCHANGED <<current_chunk, c, RunVars>>
    /\ UNCHANGED <<removeVars, scalebarVars, reorientVars, helperVars>>

\* Lines 124 to 137: buildDepthMaps, buildModel, save.
BuildModel ==
    /\ bpc = "build"
    /\ IF NeedsModel(doc[current_chunk])
       THEN /\ doc' = [doc EXCEPT ![current_chunk].model = TRUE]
            /\ ops' = Append(ops, Op("build_model", current_chunk))
            /\ Save(doc')
       ELSE Skip
    /\ bpc' = "scalebars"
    /\ UNCHANGED <<current_chunk, c, RunVars>>
    /\ UNCHANGED <<removeVars, scalebarVars, reorientVars, helperVars>>

\* Lines 139 to 146: the scalebars of the palette, which need markers, save.
BuildScalebars ==
    /\ bpc = "scalebars"
    /\ IF NeedsScalebars(doc[current_chunk])
       THEN /\ \E made \in BOOLEAN :
                 /\ made => doc[current_chunk].markers
                 /\ doc' = [doc EXCEPT ![current_chunk].scalebars = made]
            /\ ops' = Append(ops, Op("build_scalebars", current_chunk))
            /\ Save(doc')
       ELSE Skip
    /\ bpc' = "cleanup"
    /\ UNCHANGED <<current_chunk, c, RunVars>>
    /\ UNCHANGED <<removeVars, scalebarVars, reorientVars, helperVars>>

\* Lines 148 to 150: cleanup_blobs, save.
CleanupBlobs ==
    /\ bpc = "cleanup"
    /\ ops' = Append(ops, Op("cleanup_blobs", current_chunk))
    /\ doc' = [doc EXCEPT ![current_chunk] = cleanup_blobs(@)]
    /\ Save(doc')
    /\ bpc' = "holes"
    /\ UNCHANGED <<current_chunk, c, RunVars>>
    /\ UNCHANGED <<removeVars, scalebarVars, reorientVars, helperVars>>

\* Lines 152 to 154: close_holes, save.
CloseHoles ==
    /\ bpc = "holes"
    /\ ops' = Append(ops, Op("close_holes", current_chunk))
    /\ doc' = [doc EXCEPT ![current_chunk] = close_holes(@)]
    /\ Save(doc')
    /\ bpc' = "decimate"
    /\ UNCHANGED <<current_chunk, c, RunVars>>
    /\ UNCHANGED <<removeVars, scalebarVars, reorientVars, helperVars>>

\* current_chunk.copy(...) followed by decimateModel on the copy: the copy has
\* what the chunk has; decimation may or may not keep a texture the model had.
LowPolyCopies(chunk) ==
    {[chunk EXCEPT !.lowpoly = TRUE, !.textures = t] :
        t \in {FALSE} \cup (IF chunk.textures THEN {TRUE} ELSE {})}

\* Lines 156 to 160: the low-poly duplicate chunk; no save follows.
Decimate ==
    /\ bpc = "decimate"
    /\ IF NeedsLowPoly
       THEN /\ \E newchunk \in LowPolyCopies(doc[current_chunk]) :
                 doc' = Append(doc, newchunk)
            /\ ops' = Append(ops, Op("decimate", Len(doc')))
            /\ NoSave("decimate")
       ELSE Skip
    /\ bpc' = "texture"
    /\ c' = 1
    /\ UNCHANGED <<current_chunk, RunVars>>
    /\ UNCHANGED <<removeVars, scalebarVars, reorientVars, helperVars>>

\* Lines 162 to 167: one round of the loop that textures the chunks. Reading
\* c.model.textures of a chunk without a model is an AttributeError.
BuildTexture ==
    /\ bpc = "texture"
    /\ c <= Len(doc)
    /\ IF ~doc[c].model
       THEN /\ exc' = "AttributeError"
            /\ bpc' = "except"
            /\ Skip
            /\ c' = c
       ELSE /\ IF NeedsTexture(doc[c])
               THEN /\ doc' = [doc EXCEPT ![c].textures = TRUE]
                    /\ ops' = Append(ops, Op("build_texture", c))
                    /\ Save(doc')
               ELSE Skip
            /\ c' = c + 1
            /\ bpc' = "texture"
            /\ exc' = exc
    /\ UNCHANGED <<current_chunk, decimate, palette, export_as, start, logged, raised,
                   teardown, timing, result, exports>>
    /\ UNCHANGED <<removeVars, scalebarVars, reorientVars, helperVars>>

TextureDone ==
    /\ bpc = "texture"
    /\ c > Len(doc)
    /\ bpc' = "export"
    /\ c' = 1
    /\ Skip
    /\ UNCHANGED <<current_chunk, RunVars>>
    /\ UNCHANGED <<removeVars, scalebarVars, reorientVars, helperVars>>

\* Lines 169 to 187: one round of the loop that reorients and exports the
\* chunks. The reorientation is not saved.
ExportChunk ==
    /\ bpc = "export"
    /\ c <= Len(doc)
    /\ IF ReorientRaises(doc[c])
       THEN /\ exc' = "TypeError"
            /\ bpc' = "except"
            /\ UNCHANGED <<ops, exports, c>>
       ELSE /\ ops' = Append(ops, Op("export", c))
            /\ exports' = exports \o exportModel(c, outputtypes(export_as))
            /\ c' = c + 1
            /\ bpc' = "export"
            /\ exc' = exc
    /\ UNCHANGED <<doc, psx, psx_exists, unsaved>>
    /\ UNCHANGED <<current_chunk, decimate, palette, export_as, start, logged, raised,
                   teardown, timing, result>>
    /\ UNCHANGED <<removeVars, scalebarVars, reorientVars, helperVars>>

\* Line 189: the end of the try block.
ExportDone ==
    /\ bpc = "export"
    /\ c > Len(doc)
    /\ timing' = "ended"
    /\ bpc' = "finally"
    /\ Skip
    /\ UNCHANGED <<current_chunk, c, decimate, palette, export_as, start, exc, logged,
                   raised, teardown, result, exports>>
    /\ UNCHANGED <<removeVars, scalebarVars, reorientVars, helperVars>>

\* The positions at which the run is about to call the engine.
EngineCall ==
    \/ bpc = "open"
    \/ bpc = "chunk" /\ Len(doc) = 0
    \/ bpc = "load" /\ NeedsPhotos(doc[current_chunk])
    \/ bpc = "match" /\ NeedsSparseCloud(doc[current_chunk])
    \/ bpc = "markers" /\ NeedsMarkers(doc[current_chunk])
    \/ bpc = "refine" /\ NeedsRefine(doc[current_chunk])
    \/ bpc = "build" /\ NeedsModel(doc[current_chunk])
    \/ bpc = "scalebars" /\ NeedsScalebars(doc[current_chunk])
    \/ bpc \in {"cleanup", "holes"}
    \/ bpc = "decimate" /\ NeedsLowPoly
    \/ bpc = "texture" /\ c <= Len(doc) /\ doc[c].model /\ NeedsTexture(doc[c])
    \/ bpc = "export" /\ c <= Len(doc)

\* An engine operation of the stage raises: control goes to the except clause.
EngineRaises ==
    /\ EngineCall
    /\ exc' = "EngineError"
    /\ bpc' = "except"
    /\ Skip
    /\ UNCHANGED <<current_chunk, c, decimate, palette, export_as, start, logged,
                   raised, teardown, timing, result, exports>>
    /\ UNCHANGED <<removeVars, scalebarVars, reorientVars, helperVars>>

\* An except clause that logs and does not raise again.
ExceptSwallows ==
    /\ bpc = "except"
    /\ logged' = exc
    /\ raised' = ""
    /\ bpc' = "finally"
    /\ Skip
    /\ UNCHANGED <<current_chunk, c, decimate, palette, export_as, start, exc,
                   teardown, timing, result, exports>>
    /\ UNCHANGED <<removeVars, scalebarVars, reorientVars, helperVars>>

\* Lines 190 to 194: log the exception and raise it again.
Except ==
    /\ bpc = "except"
    /\ logged' = exc
    /\ raised' = exc
    /\ bpc' = "finally"
    /\ Skip
    /\ UNCHANGED <<current_chunk, c, decimate, palette, export_as, start, exc,
                   teardown, timing, result, exports>>
    /\ UNCHANGED <<removeVars, scalebarVars, reorientVars, helperVars>>

\* Lines 195 to 197: the finally clause; the run ends.
Finally ==
    /\ bpc = "finally"
    /\ doc' = <<>>
    /\ teardown' = TRUE
    /\ result' = IF raised = "" THEN "returned" ELSE "raised"
    /\ bpc' = "idle"
    /\ UNCHANGED <<psx, psx_exists, unsaved, ops>>
    /\ UNCHANGED <<current_chunk, c, decimate, palette, export_as, start, exc, logged,
                   raised, timing, exports>>
    /\ UNCHANGED <<removeVars, scalebarVars, reorientVars, helperVars>>

\* The process dies: what is in memory is lost, the project file stays.
Kill ==
    /\ bpc \notin {"idle", "off"}
    /\ doc' = <<>>
    /\ result' = "killed"
    /\ bpc' = "idle"
    /\ UNCHANGED <<psx, psx_exists, unsaved, ops>>
    /\ UNCHANGED <<current_chunk, c, decimate, palette, export_as, start, exc, logged,
                   raised, teardown, timing, exports>>
    /\ UNCHANGED <<removeVars, scalebarVars, reorientVars, helperVars>>

BuildIdle ==
    /\ psx_exists = FALSE /\ psx = <<>> /\ doc = <<>> /\ bpc = "off"
    /\ decimate = FALSE /\ palette = "None" /\ export_as = "none"
    /\ current_chunk = 0 /\ c = 0 /\ ops = <<>> /\ exports = <<>> /\ start = <<>>
    /\ unsaved = "" /\ exc = "" /\ logged = "" /\ raised = "" /\ teardown = FALSE
    /\ timing = "none" /\ result = "none"

\* A new project: no project file yet.
InitBuild ==
    /\ psx_exists = FALSE /\ psx = <<>> /\ doc = <<>> /\ bpc = "idle"
    /\ decimate = FALSE
    /\ palette \in Palettes
    /\ export_as \in ExportSettings
    /\ current_chunk = 0 /\ c = 0 /\ ops = <<>> /\ exports = <<>> /\ start = <<>>
    /\ unsaved = "" /\ exc = "" /\ logged = "" /\ raised = "" /\ teardown = FALSE
    /\ timing = "none" /\ result = "none"

NextBuild ==
    \/ Invoke \/ OpenProject \/ EnsureChunk \/ LoadPhotos \/ MatchPhotos
    \/ DetectMarkers \/ RefineSparseCloud \/ BuildModel \/ BuildScalebars
    \/ CleanupBlobs \/ CloseHoles \/ Decimate \/ BuildTexture \/ TextureDone
    \/ ExportChunk \/ ExportDone \/ EngineRaises \/ Except \/ Finally \/ Kill

\* ------------------------------------------------------------ reorient_model
\* Vectors are triples and matrices four rows of four integers.
Sub(u, v) == <<u[1] - v[1], u[2] - v[2], u[3] - v[3]>>

\* A product that gives back its first factor.
crossFirst(u, v) == u

\* Metashape.Vector.cross
cross(u, v) ==
    <<u[2] * v[3] - u[3] * v[2], u[3] * v[1] - u[1] * v[3], u[1] * v[2] - u[2] * v[1]>>

RECURSIVE SqrtSearch(_, _, _)
SqrtSearch(n, lo, hi) ==
    IF lo >= hi THEN lo
    ELSE LET mid == (lo + hi + 1) \div 2
         IN IF mid * mid <= n THEN SqrtSearch(n, mid, hi) ELSE SqrtSearch(n, lo, mid - 1)

\* math.sqrt on the sums of squares that occur here, which are perfect squares.
\* The search stops at the largest root whose square is a 32-bit integer.
sqrt(n) == SqrtSearch(n, 0, IF n < 46340 THEN n ELSE 46340)

Magnitude(v) == sqrt(v[1] * v[1] + v[2] * v[2] + v[3] * v[3])

\* Vector.normalize() for the vectors that occur here, which lie along an axis.
normalize(v) ==
    LET m == Magnitude(v)
    IN <<v[1] \div m, v[2] \div m, v[3] \div m>>

MatMul(A, B) ==
    [i \in 1..4 |-> [j \in 1..4 |->
        A[i][1] * B[1][j] + A[i][2] * B[2][j] + A[i][3] * B[3][j] + A[i][4] * B[4][j]]]

\* Metashape.Matrix().Diag([a, b, c, d])
Diag(d) == [i \in 1..4 |-> [j \in 1..4 |-> IF i = j THEN d[i] ELSE 0]]

\* The matrix [[1,0,0,x],[0,1,0,y],[0,0,1,z],[0,0,0,1]].
Translation(v) ==
    <<<<1, 0, 0, v[1]>>, <<0, 1, 0, v[2]>>, <<0, 0, 1, v[3]>>, <<0, 0, 0, 1>>>>

\* newtranslation.inv(): the inverse of a translation is the opposite translation.
TranslationInv(v) == Translation(<<0 - v[1], 0 - v[2], 0 - v[3]>>)

\* palette["axes"] of the palette in use.
PaletteAxes == [xpos |-> {1, 5}, xneg |-> {2}, zpos |-> {3}, zneg |-> {4}]

\* Where the markers of the palette lie: those of the X buckets along X, those
\* of the Z buckets along Z, marker 6 (in no bucket) elsewhere.
MarkerPosition(n) ==
    CASE n = 1 -> <<2, 0, 0>>
      [] n = 2 -> <<0 - 2, 0, 0>>
      [] n = 5 -> <<5, 0, 0>>
      [] n = 3 -> <<0, 0, 3>>
      [] n = 4 -> <<0, 0, 0 - 3>>
      [] OTHER -> <<1, 4, 1>>

PaletteMarkers == {1, 2, 3, 4, 5, 6}

\* The positions appended to xaxis and zaxis by the loop over chunk.markers,
\* which stops once both have two entries.
RECURSIVE BucketMarkers(_, _, _)
BucketMarkers(ms, xaxis, zaxis) ==
    IF ms = <<>> \/ (Len(xaxis) >= 2 /\ Len(zaxis) >= 2)
    THEN [xaxis |-> xaxis, zaxis |-> zaxis]
    ELSE LET m == Head(ms)
         IN IF m.label \in PaletteAxes.xpos \cup PaletteAxes.xneg
            THEN BucketMarkers(Tail(ms), Append(xaxis, m.position), zaxis)
            ELSE IF m.label \in PaletteAxes.zpos \cup PaletteAxes.zneg
            THEN BucketMarkers(Tail(ms), xaxis, Append(zaxis, m.position))
            ELSE BucketMarkers(Tail(ms), xaxis, zaxis)

\* find_axes_from_markers: [kind |-> "None"] for the bare return on a chunk
\* without markers, [kind |-> "IndexError"] when xaxis[1] or zaxis[1] does not
\* exist, otherwise the list [ux, yaxis, uz].
find_axes_from_markers(ms) ==
    IF ms = <<>> THEN [kind |-> "None", axes |-> <<>>]
    ELSE LET b == BucketMarkers(ms, <<>>, <<>>)
         IN IF Len(b.xaxis) < 2 \/ Len(b.zaxis) < 2
            THEN [kind |-> "IndexError", axes |-> <<>>]
            ELSE LET ux == Sub(b.xaxis[2], b.xaxis[1])
                     uz == Sub(b.zaxis[2], b.zaxis[1])
                     yaxis == cross(uz, ux)
                 IN [kind |-> "list",
                     axes |-> <<normalize(ux), normalize(yaxis), normalize(uz)>>]

\* An alignment that keeps the scale of the transform as it is.
align_markers_to_axes_samescale(transmat, axes) ==
    LET scale == sqrt(transmat[1][1] * transmat[1][1] + transmat[1][2] * transmat[1][2]
                      + transmat[1][3] * transmat[1][3])
    IN MatMul(Diag(<<scale, scale, scale, 1>>),
              <<<<axes[1][1], axes[1][2], axes[1][3], 0>>,
                <<axes[2][1], axes[2][2], axes[2][3], 0>>,
                <<axes[3][1], axes[3][2], axes[3][3], 0>>,
                <<0, 0, 0, 1>>>>)

\* align_markers_to_axes: the new chunk.transform.matrix.
align_markers_to_axes(transmat, axes) ==
    LET scale == sqrt(transmat[1][1] * transmat[1][1] + transmat[1][2] * transmat[1][2]
                      + transmat[1][3] * transmat[1][3]) * 1000
        scalematrix == Diag(<<scale, scale, scale, 1>>)
        newaxes == <<<<axes[1][1], axes[1][2], axes[1][3], 0>>,
                     <<axes[2][1], axes[2][2], axes[2][3], 0>>,
                     <<axes[3][1], axes[3][2], axes[3][3], 0>>,
                     <<0, 0, 0, 1>>>>
    IN MatMul(scalematrix, newaxes)

\* move_model_to_world_origin: the center is read before the first
\* resetRegion(); the new matrix and the region center after the last one.
move_model_to_world_origin(matrix, regioncenter) ==
    [matrix |-> MatMul(matrix, TranslationInv(regioncenter)),
     region_center |-> cloud_center]

\* reorient_model: len(axes) is a TypeError when axes is None.
reorient_model ==
    /\ ro_calls >= 0 /\ ro_calls < MaxReorients
    /\ LET found == find_axes_from_markers(chunk_markers)
       IN IF found.kind = "IndexError"
          THEN /\ ro_result' = found.kind
               /\ ro_log' = <<>>
               /\ UNCHANGED <<transform, region_center>>
          ELSE IF found.kind = "None"
          THEN /\ ro_result' = "TypeError"
               /\ ro_log' = <<>>
               /\ UNCHANGED <<transform, region_center>>
          ELSE IF Len(found.axes) = 0
          THEN /\ ro_result' = "returned"
               /\ ro_log' = <<"warning">>
               /\ UNCHANGED <<transform, region_center>>
          ELSE LET aligned == align_markers_to_axes(transform, found.axes)
                   moved == move_model_to_world_origin(aligned, region_center)
               IN /\ transform' = moved.matrix
                  /\ region_center' = moved.region_center
                  /\ ro_log' = <<"align_markers_to_axes", "move_model_to_world_origin">>
                  /\ ro_result' = "returned"
    /\ ro_before' = [transform |-> transform, region_center |-> region_center]
    /\ ro_calls' = ro_calls + 1
    /\ UNCHANGED <<chunk_markers, cloud_center>>
    /\ UNCHANGED <<removeVars, scalebarVars, buildVars, helperVars>>

\* The marker lists a chunk may hold: markers of the palette, each once.
MarkerLists ==
    {[i \in 1..Len(ns) |-> [label |-> ns[i], position |-> MarkerPosition(ns[i])]] :
        ns \in {q \in SeqsUpTo(PaletteMarkers, MaxMarkers) :
                   \A i, j \in 1..Len(q) : i # j => q[i] # q[j]}}

\* The transforms a chunk may have: the identity, a scaled one, and a scaled
\* and rotated one with a translation.
Transforms ==
    {Diag(<<1, 1, 1, 1>>), Diag(<<2, 2, 2, 1>>),
     <<<<0, 0, 2, 1>>, <<0, 2, 0, 0>>, <<0 - 2, 0, 0, 3>>, <<0, 0, 0, 1>>>>}

Centers == {<<0, 0, 0>>, <<1, 2, 0 - 1>>}

ReorientIdle ==
    /\ chunk_markers = <<>> /\ transform = Diag(<<1, 1, 1, 1>>)
    /\ region_center = <<0, 0, 0>> /\ cloud_center = <<0, 0, 0>>
    /\ ro_log = <<>> /\ ro_result = "none"
    /\ ro_before = [transform |-> Diag(<<1, 1, 1, 1>>), region_center |-> <<0, 0, 0>>]
    /\ ro_calls = -1

InitReorient ==
    /\ chunk_markers \in MarkerLists
    /\ transform \in Transforms
    /\ region_center \in Centers
    /\ cloud_center \in Centers
    /\ ro_log = <<>> /\ ro_result = "none"
    /\ ro_before = [transform |-> transform, region_center |-> region_center]
    /\ ro_calls = 0

NextReorient == reorient_model

\* A call of move_model_to_world_origin on its own, on a chunk as it is.
move_model_to_world_origin_call ==
    /\ ro_calls = 0
    /\ LET moved == move_model_to_world_origin(transform, region_center)
       IN /\ transform' = moved.matrix
          /\ region_center' = moved.region_center
    /\ ro_log' = <<"move_model_to_world_origin">>
    /\ ro_result' = "returned"
    /\ ro_before' = [transform |-> transform, region_center |-> region_center]
    /\ ro_calls' = ro_calls + 1
    /\ UNCHANGED <<chunk_markers, cloud_center>>
    /\ UNCHANGED <<removeVars, scalebarVars, buildVars, helperVars>>

NextOrigin == move_model_to_world_origin_call


\* ------------------------------------------------------------ cleanup_blobs
\* Most connected components of a mesh.
MaxComponents == 3
\* Most faces of one component.
MaxFaces == 10

RECURSIVE Sum(_)
Sum(s) == IF s = <<>> THEN 0 ELSE Head(s) + Sum(Tail(s))

RECURSIVE SelectSeqBy(_, _)
SelectSeqBy(s, keep) ==
    IF s = <<>> THEN <<>>
    ELSE (IF Head(s) \in keep THEN <<Head(s)>> ELSE <<>>) \o SelectSeqBy(Tail(s), keep)

\* A threshold of half the faces.
ComponentThresholdHalf(nfaces) == nfaces \div 2

\* int(len(chunk.model.faces) * 0.6)
ComponentThreshold(nfaces) == (nfaces * 6) \div 10

\* chunk.model.removeComponents(threshold): the engine removes the components
\* below the threshold; whether a component of exactly threshold faces goes
\* too is the engine's choice (inclusive).
removeComponents(comps, threshold, inclusive) ==
    SelectSeqBy(comps, {n \in Range(comps) :
                          IF inclusive THEN n > threshold ELSE n >= threshold})

cleanup_blobs_call ==
    /\ cb_pc = "ready"
    /\ cb_before' = faces
    /\ IF has_model
       THEN \E inclusive \in BOOLEAN :
              faces' = removeComponents(faces, ComponentThreshold(Sum(faces)), inclusive)
       ELSE faces' = faces
    /\ cb_pc' = "done"
    /\ UNCHANGED has_model
    /\ UNCHANGED otherThanCleanup

CleanupIdle ==
    /\ has_model = FALSE /\ faces = <<>> /\ cb_before = <<>> /\ cb_pc = "idle"

InitCleanup ==
    /\ has_model \in BOOLEAN
    /\ faces \in SeqsUpTo(1..MaxFaces, MaxComponents)
    /\ has_model = FALSE => faces = <<>>
    /\ cb_before = <<>>
    /\ cb_pc = "ready"

NextCleanup == cleanup_blobs_call

\* ------------------------------------------------------- ptsToClockwiseRect
\* Largest image coordinate of a corner.
MaxCoord == 10

\* np.argmin of a sequence: the first index of the smallest value.
ArgMin(s) == CHOOSE i \in 1..Len(s) :
    /\ \A j \in 1..Len(s) : s[i] <= s[j]
    /\ \A j \in 1..(i - 1) : s[j] > s[i]

\* The last index of the largest value.
ArgMaxLast(s) == CHOOSE i \in 1..Len(s) :
    /\ \A j \in 1..Len(s) : s[i] >= s[j]
    /\ \A j \in (i + 1)..Len(s) : s[j] < s[i]

\* np.argmax of a sequence: the first index of the largest value.
ArgMax(s) == CHOOSE i \in 1..Len(s) :
    /\ \A j \in 1..Len(s) : s[i] >= s[j]
    /\ \A j \in 1..(i - 1) : s[j] < s[i]

\* pts.sum(axis=1): x + y of each point.
SumAxis1(p) == [i \in 1..Len(p) |-> p[i][1] + p[i][2]]

\* The difference taken the other way round, x - y.
DiffAxis1Reversed(p) == [i \in 1..Len(p) |-> p[i][1] - p[i][2]]

\* np.diff(pts, axis=1): y - x of each point.
DiffAxis1(p) == [i \in 1..Len(p) |-> p[i][2] - p[i][1]]

\* The float32 array the function fills; coordinates of this size are kept
\* exactly by float32.
ptsToClockwiseRect(p) ==
    LET s == SumAxis1(p)
        d == DiffAxis1(p)
    IN <<p[ArgMin(s)], p[ArgMin(d)], p[ArgMax(s)], p[ArgMax(d)]>>

ptsToClockwiseRect_call ==
    /\ oc_pc = "ready"
    /\ rect' = ptsToClockwiseRect(pts)
    /\ oc_pc' = "done"
    /\ UNCHANGED pts
    /\ UNCHANGED otherThanCorners

\* The orders in which four points can be listed.
Permutations4 == {q \in [1..4 -> 1..4] : \A i, j \in 1..4 : i # j => q[i] # q[j]}

\* The corners of the axis-aligned rectangles, clockwise from the top left.
Rectangles ==
    {<<<<x[1], y[1]>>, <<x[2], y[1]>>, <<x[2], y[2]>>, <<x[1], y[2]>>>> :
        x \in {q \in (0..MaxCoord) \X (0..MaxCoord) : q[1] < q[2]},
        y \in {q \in (0..MaxCoord) \X (0..MaxCoord) : q[1] < q[2]}}

CornersIdle == pts = <<>> /\ rect = <<>> /\ oc_pc = "idle"

InitCorners ==
    /\ \E r \in Rectangles, q \in Permutations4 : pts = [i \in 1..4 |-> r[q[i]]]
    /\ rect = <<>>
    /\ oc_pc = "ready"

\* The largest coordinate of a quadrilateral's corner.
MaxQuadCoord == 3

\* Any four distinct points, in any order: the function takes whatever the
\* contour approximation found.
InitQuads ==
    /\ pts \in {q \in [1..4 -> (0..MaxQuadCoord) \X (0..MaxQuadCoord)] :
                   \A i, j \in 1..4 : i # j => q[i] # q[j]}
    /\ rect = <<>>
    /\ oc_pc = "ready"

NextCorners == ptsToClockwiseRect_call

\* ------------------------------------------------------------ get_exif_data
\* ExifTags.IFD: the codes that point to a nested block (Exif, GPSInfo,
\* Makernote, Interop).
IFD_CODES == {34665, 34853, 37500, 40965}

\* The blocks that a file carries as blocks of their own. get_ifd looks the
\* other two up inside the Exif block.
OwnBlocks == {34665, 34853}

\* ExifTags.TAGS.get(code, None), "" standing for None.
TAGS(code) ==
    CASE code = 271 -> "Make"
      [] code = 33437 -> "FNumber"
      [] code = 37500 -> "MakerNote"
      [] code = 37510 -> "UserComment"
      [] OTHER -> ""

\* ExifTags.GPSTAGS.get(code, None), "" standing for None.
GPSTAGS(code) ==
    CASE code = 1 -> "GPSLatitudeRef"
      [] code = 2 -> "GPSLatitude"
      [] OTHER -> ""

\* A key of the mapping: a tag name, or a code that has no name.
NameKey(n) == [name |-> n, code |-> 0]
CodeKey(k) == [name |-> "", code |-> k]

skiplist == {"MakerNote", "UserComment"}

\* GPSTAGS.get(nk) or TAGS.get(nk) or nk
nested_tag(nk) ==
    IF GPSTAGS(nk) # "" THEN NameKey(GPSTAGS(nk))
    ELSE IF TAGS(nk) # "" THEN NameKey(TAGS(nk))
    ELSE CodeKey(nk)

\* ExifTags.TAGS.get(code, code)
tagname(code) == IF TAGS(code) # "" THEN NameKey(TAGS(code)) ELSE CodeKey(code)

\* The keys that the inner loop adds for one block.
NestedKeys(ifd_data) ==
    {nested_tag(nk) : nk \in {k \in ifd_data : nested_tag(k).name \notin skiplist}}

\* The keys the loop adds, over all the top-level tags. The tags that were
\* there stay under their codes.
FlattenedKeys(tags, ifds) ==
    {CodeKey(code) : code \in tags}
    \cup UNION {NestedKeys(ifds[code]) : code \in tags \cap OwnBlocks}
    \cup {tagname(code) : code \in tags \ IFD_CODES}

\* The whole call. A Makernote or Interop code at top level is looked up in
\* the Exif block by get_ifd; the library gives an empty block or raises
\* KeyError when it is not there.
get_exif_data ==
    /\ ex_pc = "ready"
    /\ \/ /\ exif' = FlattenedKeys(exif_tags, exif_ifds)
          /\ ex_result' = "returned"
       \/ /\ (exif_tags \cap IFD_CODES) \ OwnBlocks # {}
          /\ exif' = {}
          /\ ex_result' = "KeyError"
    /\ ex_pc' = "done"
    /\ UNCHANGED <<exif_tags, exif_ifds>>
    /\ UNCHANGED otherThanExif

\* Codes of top-level tags of a synthetic tag set.
TopCodes == {271, 37500, 37510, 59999} \cup OwnBlocks

\* Codes of tags inside a block.
SubCodes == {2, 33437, 37500, 37510}

ExifIdle ==
    /\ exif_tags = {} /\ exif_ifds = <<>> /\ exif = {}
    /\ ex_result = "none" /\ ex_pc = "idle"

InitExif ==
    /\ exif_tags \in SUBSET TopCodes
    /\ exif_ifds \in [exif_tags \cap OwnBlocks -> SUBSET SubCodes]
    /\ exif = {}
    /\ ex_result = "none"
    /\ ex_pc = "ready"

NextExif == get_exif_data

\* ------------------------------------------------------------ process_image
\* str.upper() of one character.
UpperChar(ch) ==
    CASE ch = "c" -> "C" [] ch = "r" -> "R" [] ch = "t" -> "T" [] ch = "i" -> "I"
      [] ch = "f" -> "F" [] ch = "j" -> "J" [] ch = "p" -> "P" [] ch = "g" -> "G"
      [] ch = "e" -> "E" [] ch = "n" -> "N" [] ch = "a" -> "A" [] ch = "o" -> "O"
      [] OTHER -> ch

\* str.upper()
Upper(s) == [i \in 1..Len(s) |-> UpperChar(s[i])]

\* str.endswith(suffix)
EndsWith(s, suffix) ==
    /\ Len(s) >= Len(suffix)
    /\ SubSeq(s, Len(s) - Len(suffix) + 1, Len(s)) = suffix

\* The position of the last "." of a name, 0 if there is none.
LastDot(s) ==
    IF \E i \in 1..Len(s) : s[i] = "."
    THEN CHOOSE i \in 1..Len(s) : s[i] = "." /\ \A j \in (i + 1)..Len(s) : s[j] # "."
    ELSE 0

\* Path(input).stem
Stem(s) == IF LastDot(s) > 1 THEN SubSeq(s, 1, LastDot(s) - 1) ELSE s

\* os.path.splitext(input)[1]
Extension(s) == IF LastDot(s) > 1 THEN SubSeq(s, LastDot(s), Len(s)) ELSE <<>>

\* os.path.join(output, name) for the output directory "o".
JoinOutput(name) == <<"o", "/">> \o name

\* What convert_CR2_to_TIF returns: the output directory, the stem and ".tif".
convert_CR2_to_TIF(input) == JoinOutput(Stem(input) \o <<".", "t", "i", "f">>)

\* What convertToJPG returns: the output directory and the stem.
convertToJPG(input) == JoinOutput(Stem(input))

\* The routing of process_image: the converter called and the path returned.
Route(path, dest) ==
    IF ~EndsWith(Upper(path), Upper(dest))
    THEN IF EndsWith(Upper(path), <<"C", "R", "2">>)
         THEN IF Upper(dest) = <<".", "T", "I", "F">>
              THEN [converter |-> "convert_CR2_to_TIF", path |-> convert_CR2_to_TIF(path)]
              ELSE IF Upper(dest) = <<".", "J", "P", "G">>
              THEN [converter |-> "convertToJPG", path |-> convertToJPG(path)]
              ELSE [converter |-> "", path |-> <<>>]
         ELSE IF EndsWith(Upper(path), <<"T", "I", "F">>)
         THEN IF Upper(dest) = <<".", "J", "P", "G">>
              THEN [converter |-> "convertToJPG", path |-> convertToJPG(path)]
              ELSE [converter |-> "", path |-> <<>>]
         ELSE [converter |-> "", path |-> <<>>]
    ELSE [converter |-> "", path |-> <<>>]

process_image ==
    /\ pi_pc = "ready"
    /\ output' = TRUE
    /\ converter' = Route(filepath, Destination_Type).converter
    /\ processedpath' = Route(filepath, Destination_Type).path
    /\ pi_pc' = "done"
    /\ UNCHANGED <<filepath, Destination_Type>>
    /\ UNCHANGED otherThanProcess

\* File extensions and destination types of the synthetic inputs.
SourceExtensions ==
    {<<".", "C", "R", "2">>, <<".", "c", "r", "2">>, <<".", "t", "i", "f">>,
     <<".", "T", "I", "F">>, <<".", "t", "i", "f", "f">>, <<".", "T", "I", "F", "F">>,
     <<".", "j", "p", "g">>, <<".", "j", "p", "e", "g">>, <<".", "p", "n", "g">>}

DestinationTypes ==
    {<<".", "T", "I", "F">>, <<".", "t", "i", "f">>, <<".", "J", "P", "G">>,
     <<".", "j", "p", "g">>, <<".", "C", "R", "2">>, <<".", "t", "i", "f", "f">>,
     <<".", "p", "n", "g">>}

SourceStems == {<<"a">>, <<"a", ".", "t", "i", "f">>}

ProcessIdle ==
    /\ filepath = <<>> /\ output = FALSE /\ Destination_Type = <<>>
    /\ converter = "" /\ processedpath = <<>> /\ pi_pc = "idle"

InitProcess ==
    /\ \E s \in SourceStems, e \in SourceExtensions : filepath = s \o e
    /\ output \in BOOLEAN
    /\ Destination_Type \in DestinationTypes
    /\ converter = ""
    /\ processedpath = <<>>
    /\ pi_pc = "ready"

NextProcess == process_image

\* --------------------------------------------------- convert_unit_to_meters
\* Largest value converted.
MaxVal == 250

\* Unit strings passed to the conversion on its own.
UnitStrings == Units \cup {"Cm", "MM", "KM", "M", "in", ""}

convert_unit_to_meters_call ==
    /\ cu_pc = "ready"
    /\ meters' = convert_unit_to_meters(cu_unit, cu_val)
    /\ cu_pc' = "done"
    /\ UNCHANGED <<cu_unit, cu_val>>
    /\ UNCHANGED otherThanUnit

UnitIdle == cu_unit = "" /\ cu_val = 0 /\ meters = 0 /\ cu_pc = "idle"

InitUnit ==
    /\ cu_unit \in UnitStrings
    /\ cu_val \in 0..MaxVal
    /\ meters = 0
    /\ cu_pc = "ready"

NextUnit == convert_unit_to_meters_call

\* --------------------------------------------------- find_axes_from_markers
\* Most markers on a chunk whose axes are looked for.
MaxAxisMarkers == 4

\* Where the line of the X markers and the line of the Z markers may lie: the
\* two coordinates that the markers of a bucket share.
LineOffsets == {<<0, 0>>, <<1, 0 - 2>>, <<4, 1>>}

\* The position of marker n when the X markers share y and z (xline) and the
\* Z markers share x and y (zline).
AxisPosition(n, xline, zline) ==
    IF n \in PaletteAxes.xpos \cup PaletteAxes.xneg
    THEN <<MarkerPosition(n)[1], xline[1], xline[2]>>
    ELSE IF n \in PaletteAxes.zpos \cup PaletteAxes.zneg
    THEN <<zline[1], zline[2], MarkerPosition(n)[3]>>
    ELSE MarkerPosition(n)

find_axes_from_markers_call ==
    /\ ax_pc = "ready"
    /\ ax_axes' = find_axes_from_markers(ax_markers)
    /\ ax_pc' = "done"
    /\ UNCHANGED ax_markers
    /\ UNCHANGED otherThanAxes

\* The marker lists of a chunk: markers of the palette, each once, in any order.
AxisMarkerLists ==
    {[i \in 1..Len(ns) |-> [label |-> ns[i],
                            position |-> AxisPosition(ns[i], xline, zline)]] :
        ns \in {q \in SeqsUpTo(PaletteMarkers, MaxAxisMarkers) :
                   \A i, j \in 1..Len(q) : i # j => q[i] # q[j]},
        xline \in LineOffsets, zline \in LineOffsets}

AxesIdle ==
    /\ ax_markers = <<>> /\ ax_axes = [kind |-> "None", axes |-> <<>>] /\ ax_pc = "idle"

InitAxes ==
    /\ ax_markers \in AxisMarkerLists
    /\ ax_axes = [kind |-> "None", axes |-> <<>>]
    /\ ax_pc = "ready"

NextAxes == find_axes_from_markers_call

\* ------------------------------------------------ reorient_model, repeated
\* The largest scale of a transform that is reoriented once more.
MaxScale == 2000

\* The transforms whose first row lies within that scale.
WithinScale(M) ==
    \A j \in 1..3 : M[1][j] <= MaxScale /\ 0 - M[1][j] <= MaxScale

\* reorient_model on a chunk that was reoriented before or not: the transform
\* it left is the transform the next call starts from.
reorient_model_again ==
    /\ WithinScale(transform)
    /\ reorient_model

\* The marker lists with up to four markers, enough for both axes.
FullMarkerLists ==
    {[i \in 1..Len(ns) |-> [label |-> ns[i], position |-> MarkerPosition(ns[i])]] :
        ns \in {q \in SeqsUpTo(PaletteMarkers, MaxAxisMarkers) :
                   \A i, j \in 1..Len(q) : i # j => q[i] # q[j]}}

InitAlign ==
    /\ chunk_markers \in FullMarkerLists
    /\ transform \in Transforms
    /\ region_center \in Centers
    /\ cloud_center \in Centers
    /\ ro_log = <<>> /\ ro_result = "none"
    /\ ro_before = [transform |-> transform, region_center |-> region_center]
    /\ ro_calls = 0

NextAlign == reorient_model_again

\* --------------------------------------------------- thresholdSelectCommand
\* Most characters of the text given to --thresholds.
MaxArgLen == 4

\* config["canny_lower_intensity_threshold"] and
\* config["canny_higher_intensity_threshold"]
CannyConfigured == [lower |-> 30, higher |-> 90]

Digits == {"0", "1", "2"}

DigitValue(ch) == CASE ch = "0" -> 0 [] ch = "1" -> 1 [] ch = "2" -> 2 [] OTHER -> 0

\* args.thresholds.replace(" ", "")
RemoveSpaces(s) == SelectSeq(s, LAMBDA ch : ch # " ")

\* str.split(s, ','): the pieces between the commas, an empty piece for an
\* empty text.
RECURSIVE Split(_, _)
Split(s, piece) ==
    IF s = <<>> THEN <<piece>>
    ELSE IF Head(s) = "," THEN <<piece>> \o Split(Tail(s), <<>>)
    ELSE Split(Tail(s), Append(piece, Head(s)))

\* float(f) accepts a piece of digits; an empty piece is a ValueError.
IsNumber(f) == f # <<>> /\ \A i \in 1..Len(f) : f[i] \in Digits

\* float(f) for such a piece.
RECURSIVE Float(_)
Float(f) ==
    IF f = <<>> THEN 0
    ELSE Float(SubSeq(f, 1, Len(f) - 1)) * 10 + DigitValue(f[Len(f)])

\* A choice that always takes the configured value.
SelectLowerConfigured(thresholds, configured) == configured

\* thresholds[0] if len(thresholds)>0 else config[...]
SelectLower(thresholds, configured) ==
    IF Len(thresholds) > 0 THEN thresholds[1] ELSE configured

\* thresholds[i] if len(thresholds)>1 else config[...], i counted from 1
SelectCanny(thresholds, i, configured) ==
    IF Len(thresholds) > 1 THEN thresholds[i] ELSE configured

NoCall == [routine |-> "", thresholds |-> <<>>]

\* The whole command. A text that is empty counts as not given; img.exists
\* is not called, so only the parent of the output path is tested.
thresholdSelectCommand ==
    /\ ts_pc = "ready"
    /\ LET pieces == IF args_thresholds.given /\ args_thresholds.text # <<>>
                     THEN Split(RemoveSpaces(args_thresholds.text), <<>>)
                     ELSE <<>>
       IN IF \E i \in 1..Len(pieces) : ~IsNumber(pieces[i])
          THEN /\ ts_result' = "ValueError"
               /\ mask_call' = NoCall
          ELSE LET thresholds == [i \in 1..Len(pieces) |-> Float(pieces[i])]
               IN /\ ts_result' = "returned"
                  /\ mask_call' =
                       IF ~outparent_exists THEN NoCall
                       ELSE IF args_type = "thresholding"
                       THEN [routine |-> "thresholdingMask",
                             thresholds |-> <<SelectLower(thresholds, config_lower)>>]
                       ELSE IF args_type = "canny"
                       THEN [routine |-> "edgeDetectionMask",
                             thresholds |-> <<SelectCanny(thresholds, 1, CannyConfigured.lower),
                                              SelectCanny(thresholds, 2, CannyConfigured.higher)>>]
                       ELSE [routine |-> "otsuThresholding", thresholds |-> <<>>]
    /\ ts_pc' = "done"
    /\ UNCHANGED <<args_type, args_thresholds, outparent_exists, config_lower>>
    /\ UNCHANGED otherThanMask

\* What the command line may give for --thresholds.
ThresholdArgs ==
    {[given |-> FALSE, text |-> <<>>]}
    \cup {[given |-> TRUE, text |-> t] : t \in SeqsUpTo(Digits \cup {",", " "}, MaxArgLen)}

\* Configured lower gray thresholds.
ConfiguredLower == {50, 200}

MaskIdle ==
    /\ args_type = "" /\ args_thresholds = [given |-> FALSE, text |-> <<>>]
    /\ outparent_exists = FALSE /\ config_lower = 0 /\ mask_call = NoCall
    /\ ts_result = "none" /\ ts_pc = "idle"

InitMask ==
    /\ args_type \in {"otsu", "thresholding", "canny"}
    /\ args_thresholds \in ThresholdArgs
    /\ outparent_exists \in BOOLEAN
    /\ config_lower \in ConfiguredLower
    /\ mask_call = NoCall
    /\ ts_result = "none"
    /\ ts_pc = "ready"

NextMask == thresholdSelectCommand

\* -------------------------------- refine_sparse_cloud, reprojection phase
\* Most tie points of the cloud that is refined.
MaxTiePoints == 3
\* Largest reprojection error of a tie point.
MaxReprojection == 2

\* What a call of remove_above_error_threshold leaves of a cloud, and the
\* flag it returns.
RemoveResult(vals, maxerr, maxpts) ==
    LET errorvals == SortDesc(vals)
        stop == StopIndex(errorvals, 0, maxerr, maxpts)
    IN IF stop = -1
       THEN [points |-> vals, flag |-> FALSE]
       ELSE LET v == errorvals[stop + 1]
            IN [points |-> removeSelectedPoints(vals, selectPoints(vals, v), 1),
                flag |-> ReturnFlag(v, maxerr)]

\* num_points > min_remaining_points, with
\* min_remaining_points = num_points - num_points*reprojection_max_selection
\* taken when the phase began.
AboveFloor(n, n0, fraction) == n * FracDen > n0 * FracDen - n0 * fraction

\* Line 202: the test of the while loop.
WhileTest ==
    /\ rf_pc = "while"
    /\ IF AboveFloor(rf_num_points, start_points, reprojection_max_selection) /\ ~reachedgoal
       THEN /\ rf_pc' = "remove"
            /\ iter_points' = Len(tie_points)
       ELSE /\ rf_pc' = "final"
            /\ UNCHANGED iter_points
    /\ UNCHANGED <<tie_points, reprojection_error, reprojection_max_selection,
                   reprojection_max_selection_per_iteration, rf_num_points, start_points,
                   reachedgoal>>
    /\ UNCHANGED otherThanRefine

\* Lines 203 to 206: one call of remove_above_error_threshold.
RemoveIteration ==
    /\ rf_pc = "remove"
    /\ LET r == RemoveResult(tie_points, reprojection_error,
                             reprojection_max_selection_per_iteration)
       IN /\ tie_points' = r.points
          /\ reachedgoal' = r.flag
    /\ rf_pc' = "optimize"
    /\ UNCHANGED <<reprojection_error, reprojection_max_selection,
                   reprojection_max_selection_per_iteration, rf_num_points, start_points,
                   iter_points>>
    /\ UNCHANGED otherThanRefine

\* Lines 207 and 208: optimize_cameras re-estimates the cameras, which gives
\* the points that are left errors of the engine's making, the same ones
\* included; then the points are counted.
OptimizeIteration ==
    /\ rf_pc = "optimize"
    /\ tie_points' \in [1..Len(tie_points) -> 0..MaxReprojection]
    /\ rf_num_points' = Len(tie_points)
    /\ rf_pc' = "while"
    /\ UNCHANGED <<reprojection_error, reprojection_max_selection,
                   reprojection_max_selection_per_iteration, start_points, iter_points,
                   reachedgoal>>
    /\ UNCHANGED otherThanRefine

\* Lines 209 and 210: the final optimization and the save.
FinalOptimize ==
    /\ rf_pc = "final"
    /\ tie_points' \in [1..Len(tie_points) -> 0..MaxReprojection]
    /\ rf_pc' = "done"
    /\ UNCHANGED <<reprojection_error, reprojection_max_selection,
                   reprojection_max_selection_per_iteration, rf_num_points, start_points,
                   iter_points, reachedgoal>>
    /\ UNCHANGED otherThanRefine

RefineIdle ==
    /\ tie_points = <<>> /\ reprojection_error = 0
    /\ reprojection_max_selection = 0 /\ reprojection_max_selection_per_iteration = 0
    /\ rf_num_points = 0 /\ start_points = 0 /\ iter_points = 0
    /\ reachedgoal = FALSE /\ rf_pc = "idle"

\* Lines 199 to 201: the state when the phase begins; the fractions are in (0,1].
InitRefine ==
    /\ tie_points \in SeqsUpTo(0..MaxReprojection, MaxTiePoints)
    /\ reprojection_error \in 0..MaxReprojection
    /\ reprojection_max_selection \in 1..FracDen
    /\ reprojection_max_selection_per_iteration \in 1..FracDen
    /\ rf_num_points = Len(tie_points)
    /\ start_points = Len(tie_points)
    /\ iter_points = Len(tie_points)
    /\ reachedgoal = FALSE
    /\ rf_pc = "while"

NextRefine == WhileTest \/ RemoveIteration \/ OptimizeIteration \/ FinalOptimize

\* --------------------------------------- refine_sparse_cloud, calls and saves
\* The line that follows a call of optimize_cameras or of doc.save().
AfterLine(pc) ==
    CASE pc = "optimize_179" -> "save_180"
      [] pc = "save_180" -> "remove_185"
      [] pc = "optimize_189" -> "save_190"
      [] pc = "save_190" -> "remove_192"
      [] pc = "optimize_196" -> "save_197"
      [] pc = "save_197" -> "begin_199"
      [] pc = "optimize_207" -> "while_202"
      [] pc = "optimize_209" -> "save_210"
      [] pc = "save_210" -> "done"
      [] OTHER -> pc

\* The number of points that a call of remove_above_error_threshold leaves
\* of n points, for the values the filter gives them.
LeftBy(n, vals, maxerr, maxpts) == Len(RemoveResult(vals, maxerr, maxpts).points)

\* optimize_cameras(chunk, ...) at lines 179, 189, 196, 207 and 209; line 208
\* counts the points after the call of line 207.
CallOptimizeCameras ==
    /\ ck_pc \in {"optimize_179", "optimize_189", "optimize_196", "optimize_207",
                  "optimize_209"}
    /\ ck_followed' = ck_unsaved
    /\ ck_unsaved' = "optimize_cameras"
    /\ ck_num_points' = IF ck_pc = "optimize_207" THEN ck_points ELSE ck_num_points
    /\ ck_pc' = AfterLine(ck_pc)
    /\ UNCHANGED <<ck_points, ck_thresholds, ck_start, ck_reachedgoal>>
    /\ UNCHANGED otherThanCheckpoint

\* doc.save() at lines 180, 190, 197 and 210.
SaveDocument ==
    /\ ck_pc \in {"save_180", "save_190", "save_197", "save_210"}
    /\ ck_unsaved' = ""
    /\ ck_pc' = AfterLine(ck_pc)
    /\ UNCHANGED <<ck_points, ck_thresholds, ck_num_points, ck_start, ck_reachedgoal,
                   ck_followed>>
    /\ UNCHANGED otherThanCheckpoint

\* Lines 185 to 188 and 192 to 195: the removals by reconstruction
\* uncertainty and by projection accuracy, for any values of the filter and
\* any configured threshold and fraction.
RemoveByFilter ==
    /\ ck_pc \in {"remove_185", "remove_192"}
    /\ \E vals \in [1..ck_points -> 0..MaxReprojection],
          maxerr \in 0..MaxReprojection, maxpts \in 1..FracDen :
         ck_points' = LeftBy(ck_points, vals, maxerr, maxpts)
    /\ ck_followed' = ck_unsaved
    /\ ck_unsaved' = "remove_above_error_threshold"
    /\ ck_pc' = IF ck_pc = "remove_185" THEN "optimize_189" ELSE "optimize_196"
    /\ UNCHANGED <<ck_thresholds, ck_num_points, ck_start, ck_reachedgoal>>
    /\ UNCHANGED otherThanCheckpoint

\* Lines 199 to 201.
BeginReprojection ==
    /\ ck_pc = "begin_199"
    /\ ck_num_points' = ck_points
    /\ ck_start' = ck_points
    /\ ck_reachedgoal' = FALSE
    /\ ck_pc' = "while_202"
    /\ UNCHANGED <<ck_points, ck_thresholds, ck_unsaved, ck_followed>>
    /\ UNCHANGED otherThanCheckpoint

\* Line 202.
WhileReprojection ==
    /\ ck_pc = "while_202"
    /\ ck_pc' = IF /\ AboveFloor(ck_num_points, ck_start,
                                 ck_thresholds.reprojection_max_selection)
                   /\ ~ck_reachedgoal
                THEN "remove_203"
                ELSE "optimize_209"
    /\ UNCHANGED <<ck_points, ck_thresholds, ck_num_points, ck_start, ck_reachedgoal,
                   ck_unsaved, ck_followed>>
    /\ UNCHANGED otherThanCheckpoint

\* Lines 203 to 206, for any reprojection errors of the points.
RemoveReprojection ==
    /\ ck_pc = "remove_203"
    /\ \E vals \in [1..ck_points -> 0..MaxReprojection] :
         LET r == RemoveResult(vals, ck_thresholds.reprojection_error,
                               ck_thresholds.reprojection_max_selection_per_iteration)
         IN /\ ck_points' = Len(r.points)
            /\ ck_reachedgoal' = r.flag
    /\ ck_followed' = ck_unsaved
    /\ ck_unsaved' = "remove_above_error_threshold"
    /\ ck_pc' = "optimize_207"
    /\ UNCHANGED <<ck_thresholds, ck_num_points, ck_start>>
    /\ UNCHANGED otherThanCheckpoint

NoThresholds ==
    [reprojection_error |-> 0, reprojection_max_selection |-> 0,
     reprojection_max_selection_per_iteration |-> 0]

CheckpointIdle ==
    /\ ck_points = 0 /\ ck_thresholds = NoThresholds /\ ck_num_points = 0
    /\ ck_start = 0 /\ ck_reachedgoal = FALSE /\ ck_unsaved = ""
    /\ ck_followed = "" /\ ck_pc = "idle"

\* The call of refine_sparse_cloud: the document was saved by the stage before.
InitCheckpoint ==
    /\ ck_points \in 0..MaxTiePoints
    /\ ck_thresholds \in [reprojection_error : 0..MaxReprojection,
                          reprojection_max_selection : 1..FracDen,
                          reprojection_max_selection_per_iteration : 1..FracDen]
    /\ ck_num_points = 0 /\ ck_start = 0 /\ ck_reachedgoal = FALSE
    /\ ck_unsaved = "" /\ ck_followed = ""
    /\ ck_pc = "optimize_179"

NextCheckpoint ==
    \/ CallOptimizeCameras
    \/ SaveDocument
    \/ RemoveByFilter
    \/ BeginReprojection
    \/ WhileReprojection
    \/ RemoveReprojection

\* ---------------------------------------------------------- specifications
HelperIdle ==
    CleanupIdle /\ CornersIdle /\ ExifIdle /\ ProcessIdle /\ UnitIdle /\ AxesIdle /\ MaskIdle /\ RefineIdle /\ CheckpointIdle

InitSpecRemove == InitRemove /\ ScalebarIdle /\ BuildIdle /\ ReorientIdle /\ HelperIdle

SpecRemove == InitSpecRemove /\ [][NextRemove]_vars

InitSpecScalebars == InitScalebars /\ RemoveIdle /\ BuildIdle /\ ReorientIdle /\ HelperIdle

SpecScalebars == InitSpecScalebars /\ [][NextScalebars]_vars

InitSpecBuild == InitBuild /\ RemoveIdle /\ ScalebarIdle /\ ReorientIdle /\ HelperIdle

SpecBuild == InitSpecBuild /\ [][NextBuild]_vars

InitSpecReorient == InitReorient /\ RemoveIdle /\ ScalebarIdle /\ BuildIdle /\ HelperIdle

SpecReorient == InitSpecReorient /\ [][NextReorient]_vars

SpecOrigin == InitSpecReorient /\ [][NextOrigin]_vars

InitSpecAlign ==
    InitAlign /\ RemoveIdle /\ ScalebarIdle /\ BuildIdle /\ HelperIdle

SpecAlign == InitSpecAlign /\ [][NextAlign]_vars

EngineIdle == RemoveIdle /\ ScalebarIdle /\ BuildIdle /\ ReorientIdle

InitSpecCleanup ==
    InitCleanup /\ EngineIdle /\ CornersIdle /\ ExifIdle /\ ProcessIdle /\ UnitIdle /\ AxesIdle /\ MaskIdle /\ RefineIdle /\ CheckpointIdle

SpecCleanup == InitSpecCleanup /\ [][NextCleanup]_vars

InitSpecCorners ==
    InitCorners /\ EngineIdle /\ CleanupIdle /\ ExifIdle /\ ProcessIdle /\ UnitIdle /\ AxesIdle /\ MaskIdle /\ RefineIdle /\ CheckpointIdle

SpecCorners == InitSpecCorners /\ [][NextCorners]_vars

InitSpecQuads ==
    InitQuads /\ EngineIdle /\ CleanupIdle /\ ExifIdle /\ ProcessIdle /\ UnitIdle /\ AxesIdle /\ MaskIdle /\ RefineIdle /\ CheckpointIdle

SpecQuads == InitSpecQuads /\ [][NextCorners]_vars

InitSpecExif ==
    InitExif /\ EngineIdle /\ CleanupIdle /\ CornersIdle /\ ProcessIdle /\ UnitIdle /\ AxesIdle /\ MaskIdle /\ RefineIdle /\ CheckpointIdle

SpecExif == InitSpecExif /\ [][NextExif]_vars

InitSpecProcess ==
    InitProcess /\ EngineIdle /\ CleanupIdle /\ CornersIdle /\ ExifIdle /\ UnitIdle /\ AxesIdle /\ MaskIdle /\ RefineIdle /\ CheckpointIdle

SpecProcess == InitSpecProcess /\ [][NextProcess]_vars

InitSpecUnit ==
    InitUnit /\ EngineIdle /\ CleanupIdle /\ CornersIdle /\ ExifIdle /\ ProcessIdle /\ AxesIdle /\ MaskIdle /\ RefineIdle /\ CheckpointIdle

SpecUnit == InitSpecUnit /\ [][NextUnit]_vars

InitSpecAxes ==
    InitAxes /\ EngineIdle /\ CleanupIdle /\ CornersIdle /\ ExifIdle /\ ProcessIdle /\ UnitIdle /\ MaskIdle /\ RefineIdle /\ CheckpointIdle

SpecAxes == InitSpecAxes /\ [][NextAxes]_vars

InitSpecMask ==
    InitMask /\ EngineIdle /\ CleanupIdle /\ CornersIdle /\ ExifIdle /\ ProcessIdle /\ UnitIdle /\ AxesIdle /\ RefineIdle /\ CheckpointIdle

SpecMask == InitSpecMask /\ [][NextMask]_vars

InitSpecRefine ==
    InitRefine /\ EngineIdle /\ CleanupIdle /\ CornersIdle /\ ExifIdle /\ ProcessIdle /\ UnitIdle /\ AxesIdle /\ MaskIdle /\ CheckpointIdle

SpecRefine == InitSpecRefine /\ [][NextRefine]_vars

\* The loop runs on: a step that can be taken is taken.
SpecRefineFair == SpecRefine /\ WF_vars(NextRefine)

InitSpecCheckpoint ==
    InitCheckpoint /\ EngineIdle /\ CleanupIdle /\ CornersIdle /\ ExifIdle /\ ProcessIdle /\ UnitIdle /\ AxesIdle /\ MaskIdle /\ RefineIdle

SpecCheckpoint == InitSpecCheckpoint /\ [][NextCheckpoint]_vars

\* ------------------------------------------------------------------ claims
Distinct(s) == \A i, j \in 1..Len(s) : i # j => s[i] # s[j]

OverThreshold(s, maxerr) == {i \in 1..Len(s) : s[i] > maxerr}

\* The number of points whose error is at least that of point i.
RankFromTop(s, i) == Cardinality({j \in 1..Len(s) : s[j] >= s[i]})

C2_TrueMeansClean ==
    rpc = "done" =>
      LET errorvals == SortDesc(before)
          stop == StopIndex(errorvals, 0, max_error, max_points)
      IN /\ removed_above_threshold => OverThreshold(points, max_error) = {}
         /\ (stop # -1 /\ errorvals[stop + 1] > max_error)
              => ~removed_above_threshold

\* A cloud with ties in which the call returned true after removing points.
C2_Witness ==
    /\ rpc = "done" /\ removed_above_threshold
    /\ ~Distinct(before)
    /\ Len(points) < Len(before)
    /\ OverThreshold(before, max_error) # {}

\* The scalebars between marker1 and marker2 in that order.
BarsOrdered(sbs, a, b) == {i \in 1..Len(sbs) : sbs[i].point0 = a /\ sbs[i].point1 = b}

\* The scalebars between markers a and b in either order.
BarsBetween(sbs, a, b) == BarsOrdered(sbs, a, b) \cup BarsOrdered(sbs, b, a)

\* The definitions of the list both of whose markers are on the chunk.
Resolved(ms, defs) ==
    {i \in 1..Len(defs) : defs[i].points[1] \in ms /\ defs[i].points[2] \in ms}

\* C7: a second call with the same definitions list on the same chunk adds no
\* scalebar and leaves every scalebar with the values it had after the first
\* call, with exactly one scalebar for each marker pair as the list names it.
C7_SecondCallChangesNothing ==
    sbcalls >= 2 =>
      /\ scalebars = barsBefore
      /\ \A i \in Resolved(markers, bars) :
           Cardinality(BarsOrdered(scalebars, bars[i].points[1], bars[i].points[2])) = 1

\* Two calls have been made and the list created and referenced two scalebars.
C7_Witness ==
    /\ sbcalls = 2
    /\ Len(scalebars) = 2
    /\ Cardinality(Resolved(markers, bars)) = 2
    /\ \A i \in 1..Len(scalebars) : scalebars[i].enabled /\ scalebars[i].distance = 50

\* C8: a scalebar between two markers is reused whichever way round a
\* definition lists its endpoints, so that there is never more than one
\* scalebar for an unordered marker pair.
C8_OnePerUnorderedPair ==
    \A a \in MarkerNumbers, b \in MarkerNumbers :
        a # b => Cardinality(BarsBetween(scalebars, a, b)) <= 1

\* The names of the stages in a log of executed stages.
OpNames(log) == {log[i].op : i \in 1..Len(log)}

\* The run has come to the end of the try block without an exception.
Completed == bpc = "finally" /\ exc = ""

\* The saved state the run started from has photos, a sparse cloud, a mesh
\* and textures on every chunk.
StartComplete ==
    /\ Len(start) >= 1
    /\ \A i \in 1..Len(start) :
         start[i].cameras /\ start[i].point_cloud /\ start[i].model /\ start[i].textures

\* C3 as stated: from a saved state with photos, sparse cloud, mesh and
\* textures on every chunk (one or two chunks, either value of decimate) a
\* run executes nothing but blob cleanup, hole closing and export. (Marker
\* detection and scalebar construction, of which the claim does not speak,
\* are let through here.)
C3_OnlyCleanupHolesExport ==
    StartComplete =>
      OpNames(ops) \subseteq {"cleanup_blobs", "close_holes", "export",
                              "detect_markers", "build_scalebars"}

\* C3 amended: from such a state a run loads no photos, matches and aligns
\* nothing, refines nothing, builds no mesh, and textures no chunk of the
\* saved state; blob cleanup, hole closing and export run again; markers are
\* detected or scalebars built only when a palette asks for them and the
\* chunk has none; and the low-poly chunk is created (and textured if its
\* decimated model has no texture) only when decimate is true and the saved
\* state holds one chunk.
C3_StageSkip ==
    StartComplete =>
      /\ \A i \in 1..Len(ops) :
           /\ ops[i].op \notin {"load_photos", "match_photos", "refine_sparse_cloud",
                                "build_model"}
           /\ ops[i].op = "build_texture" => ops[i].chunk > Len(start)
           /\ ops[i].op = "decimate" => decimate /\ Len(start) = 1
           /\ ops[i].op = "detect_markers" => palette # "None" /\ ~start[1].markers
           /\ ops[i].op = "build_scalebars" =>
                palette \in {"explicit", "sequential"} /\ ~start[1].scalebars
      /\ Completed => {"cleanup_blobs", "close_holes", "export"} \subseteq OpNames(ops)

\* A completed run on a complete project of two chunks, with decimate set,
\* that executed cleanup, hole closing and export and nothing else.
C3_Witness ==
    /\ Completed /\ StartComplete /\ Len(start) = 2 /\ decimate
    /\ OpNames(ops) = {"cleanup_blobs", "close_holes", "export"}
    /\ Len(ops) = 4

\* The artifact a stage produces is absent from chunk i of the saved state.
Absent(field, i) == i > Len(start) \/ ~start[i][field]

\* The place of a stage in the fixed order of the pipeline.
StageRank(o) ==
    CASE o.op = "load_photos" -> 1
      [] o.op = "match_photos" -> 2
      [] o.op = "detect_markers" -> 3
      [] o.op = "refine_sparse_cloud" -> 4
      [] o.op = "build_model" -> 5
      [] o.op = "build_scalebars" -> 6
      [] o.op = "cleanup_blobs" -> 7
      [] o.op = "close_holes" -> 8
      [] o.op = "decimate" -> 9
      [] o.op = "build_texture" -> 10 + o.chunk
      [] o.op = "export" -> 20 + o.chunk

\* The stage was due: its artifact is not in the saved state.
WasDue(o) ==
    CASE o.op = "load_photos" -> Absent("cameras", 1)
      [] o.op = "match_photos" -> Absent("point_cloud", 1)
      [] o.op = "detect_markers" -> Absent("markers", 1)
      [] o.op = "refine_sparse_cloud" -> Absent("model", 1)
      [] o.op = "build_model" -> Absent("model", 1)
      [] o.op = "build_scalebars" -> Absent("scalebars", 1)
      [] o.op = "decimate" -> Len(start) < 2
      [] o.op = "build_texture" -> Absent("textures", o.chunk)
      [] OTHER -> TRUE

\* C4: a run on a project reloaded from its last save executes no stage whose
\* artifact is in the saved state, executes the stages in the fixed order,
\* and, when it is not interrupted, has executed every stage that the
\* configuration asks for and whose artifact was absent, and ends with a
\* mesh and a texture on every chunk.
C4_Resumable ==
    /\ \A i \in 1..Len(ops) : WasDue(ops[i])
    /\ \A i, j \in 1..Len(ops) : i < j => StageRank(ops[i]) < StageRank(ops[j])
    /\ Completed =>
         /\ Absent("cameras", 1) <=> "load_photos" \in OpNames(ops)
         /\ Absent("point_cloud", 1) <=> "match_photos" \in OpNames(ops)
         /\ (palette # "None" /\ Absent("markers", 1)) <=> "detect_markers" \in OpNames(ops)
         /\ Absent("model", 1) <=> "refine_sparse_cloud" \in OpNames(ops)
         /\ Absent("model", 1) <=> "build_model" \in OpNames(ops)
         /\ (palette \in {"explicit", "sequential"} /\ Absent("scalebars", 1))
              <=> "build_scalebars" \in OpNames(ops)
         /\ (decimate /\ Len(start) < 2) <=> "decimate" \in OpNames(ops)
         /\ \A i \in 1..Len(doc) :
              (Absent("textures", i) /\ (i <= Len(start) \/ Absent("textures", 1)))
                => \E k \in 1..Len(ops) : ops[k] = Op("build_texture", i)
         /\ \A i \in 1..Len(doc) : doc[i].model /\ doc[i].textures

\* A run resumed on a saved state with photos and a sparse cloud but no mesh:
\* it began at the refinement and ended with two textured chunks.
C4_Witness ==
    /\ Completed /\ Len(start) = 1
    /\ start[1].cameras /\ start[1].point_cloud /\ ~start[1].model
    /\ ops[1].op = "refine_sparse_cloud"
    /\ Len(doc) = 2 /\ doc[2].textures

\* C5: once an engine operation has raised, the run executes no further stage
\* and saves nothing, the except clause logs that exception and raises it
\* again, nothing is retried, and the finally clause replaces the document
\* handle on the way out of every run, raised or returned (a process that
\* dies runs nothing more).
C5_FailureHandling ==
    [][/\ (exc # "" /\ bpc # "idle") =>
            /\ ops' = ops /\ psx' = psx
            /\ bpc' \in {"except", "finally", "idle"}
       /\ (bpc = "except" /\ bpc' = "finally") => (logged' = exc /\ raised' = exc)
       /\ (bpc = "finally" /\ bpc' = "idle" /\ result' # "killed") =>
            /\ teardown' /\ doc' = <<>>
            /\ exc # "" => (result' = "raised" /\ raised' = exc /\ logged' = exc)
            /\ exc = "" => result' = "returned"
       /\ (result' \in {"returned", "raised"} /\ bpc' = "idle") => teardown'
      ]_vars

\* A run in which an engine operation raised after some stages had run: the
\* exception was logged and reached the caller, and the teardown was done.
C5_Witness ==
    /\ bpc = "idle" /\ result = "raised"
    /\ exc = "EngineError" /\ logged = exc /\ raised = exc
    /\ teardown /\ Len(ops) >= 2

\* The positions at which a stage of the pipeline is about to start.
StagePositions ==
    {"load", "match", "markers", "refine", "build", "scalebars", "cleanup", "holes",
     "decimate", "texture", "export"}

\* C6: the document and the project file never hold more than two chunks;
\* the low-poly chunk is created only in a run with decimate set that found
\* fewer than two chunks; and the build stages work on the first chunk.
C6_AtMostTwoChunks ==
    /\ Len(doc) <= 2 /\ Len(psx) <= 2
    /\ \A i \in 1..Len(ops) :
         /\ ops[i].op = "decimate" => decimate /\ Len(start) < 2 /\ ops[i].chunk = 2
         /\ StageRank(ops[i]) <= 8 => ops[i].chunk = 1
    /\ current_chunk \in {0, 1}
    /\ bpc \in StagePositions => current_chunk = 1

\* A run with decimate set on a project that already holds two chunks.
C6_Witness ==
    /\ Completed /\ decimate /\ Len(start) = 2 /\ Len(doc) = 2
    /\ doc[2].lowpoly /\ ~doc[1].lowpoly

\* C10: every stage that changes the document is followed by a save before
\* the next stage starts.
C10_SavedAfterEveryStage == bpc \in StagePositions => unsaved = ""

\* C9: on a chunk without markers reorient_model logs a warning, returns
\* without raising and leaves the transform and the region as they were; and
\* it calls align_markers_to_axes and then move_model_to_world_origin, in
\* that order, only when axes were found.
C9_NoMarkersNoChange ==
    ro_calls >= 1 =>
      /\ chunk_markers = <<>> =>
           /\ ro_result = "returned"
           /\ ro_log = <<"warning">>
           /\ transform = ro_before.transform
           /\ region_center = ro_before.region_center
      /\ ro_log \in {<<>>, <<"warning">>,
                     <<"align_markers_to_axes", "move_model_to_world_origin">>}
      /\ ro_log = <<"align_markers_to_axes", "move_model_to_world_origin">>
           => find_axes_from_markers(chunk_markers).kind = "list"

\* ---------------------------------------------------------------------------
\* export
\* ---------------------------------------------------------------------------

\* C11: every exportModel call embeds the textures exactly when its target is
\* .ply; each chunk exported gets one call per configured target, and no call
\* is made when export_as is "none".
C11_EmbedExactlyPly ==
    /\ \A i \in 1..Len(exports) :
         exports[i].embed_texture <=> (exports[i].extn = ".ply")
    /\ export_as = "none" => exports = <<>>
    /\ Completed => Len(exports) = Len(doc) * Len(outputtypes(export_as))

\* ---------------------------------------------------------------------------
\* cleanup_blobs
\* ---------------------------------------------------------------------------

\* C12 as stated: the call removes exactly the components with fewer faces
\* than 60% of the total and keeps every other one, in their order; on a
\* chunk without a mesh it changes nothing.
C12_ExactlyBelowSixtyPercent ==
    cb_pc = "done" =>
      IF has_model
      THEN faces = SelectSeqBy(cb_before,
                     {n \in Range(cb_before) : 10 * n >= 6 * Sum(cb_before)})
      ELSE faces = cb_before

\* C12 amended: every component with more than 60% of the faces is kept and
\* every component that is a whole face or more short of 60% is removed; the
\* components left keep their order; of 70%/30% only the 30% one is removed,
\* of 50%/50% with five faces or more each both are; on a chunk without a
\* mesh nothing changes.
C12_RemovesBelowTruncatedThreshold ==
    cb_pc = "done" =>
      IF has_model
      THEN LET total == Sum(cb_before)
               kept == {n \in Range(cb_before) : 10 * n > 6 * total}
               gone == {n \in Range(cb_before) : 10 * (n + 1) <= 6 * total}
           IN /\ \E keep \in SUBSET Range(cb_before) :
                   /\ kept \subseteq keep
                   /\ keep \cap gone = {}
                   /\ faces = SelectSeqBy(cb_before, keep)
              /\ (Len(cb_before) = 2 /\ 10 * cb_before[1] = 7 * total)
                   => faces = <<cb_before[1]>>
              /\ (Len(cb_before) = 2 /\ cb_before[1] = cb_before[2] /\ cb_before[1] >= 5)
                   => faces = <<>>
      ELSE faces = cb_before

C12_Witness ==
    /\ cb_pc = "done" /\ has_model
    /\ cb_before = <<7, 3>> /\ faces = <<7>>

\* ---------------------------------------------------------------------------
\* ptsToClockwiseRect
\* ---------------------------------------------------------------------------

\* C13: for the four corners of an axis-aligned rectangle, listed in any
\* order, the result is top-left, top-right, bottom-right, bottom-left (y
\* grows downward).
C13_CornersClockwise ==
    oc_pc = "done" =>
      /\ Range(rect) = Range(pts)
      /\ \A p \in Range(pts) :
           /\ rect[1][1] <= p[1] /\ rect[1][2] <= p[2]
           /\ rect[2][1] >= p[1] /\ rect[2][2] <= p[2]
           /\ rect[3][1] >= p[1] /\ rect[3][2] >= p[2]
           /\ rect[4][1] <= p[1] /\ rect[4][2] >= p[2]
      /\ Range(pts) = {<<0, 0>>, <<10, 0>>, <<10, 10>>, <<0, 10>>}
           => rect = <<<<0, 0>>, <<10, 0>>, <<10, 10>>, <<0, 10>>>>

C13_Witness ==
    /\ oc_pc = "done"
    /\ pts = <<<<10, 10>>, <<0, 10>>, <<10, 0>>, <<0, 0>>>>
    /\ rect = <<<<0, 0>>, <<10, 0>>, <<10, 10>>, <<0, 10>>>>

\* ---------------------------------------------------------------------------
\* get_exif_data
\* ---------------------------------------------------------------------------

\* C14: a tag GPSLatitude inside a nested block is a key of the result, and
\* the names MakerNote and UserComment are never keys of the result, whether
\* the tags are at top level or inside a block.
C14_FlattenedWithoutSkipped ==
    (ex_pc = "done" /\ ex_result = "returned") =>
      /\ (\E b \in DOMAIN exif_ifds : 2 \in exif_ifds[b]) => NameKey("GPSLatitude") \in exif
      /\ NameKey("MakerNote") \notin exif
      /\ NameKey("UserComment") \notin exif

\* ---------------------------------------------------------------------------
\* process_image
\* ---------------------------------------------------------------------------

\* C15: a .CR2 source goes to convert_CR2_to_TIF for destination .TIF and to
\* convertToJPG for destination .JPG, a .tif or .tiff source goes to
\* convertToJPG for destination .JPG, each returning a non-empty path; every
\* other pair of source extension and destination type calls no converter and
\* returns the empty path; the output directory exists afterwards.
C15_Routing ==
    pi_pc = "done" =>
      LET ext == Upper(Extension(filepath))
          dest == Upper(Destination_Type)
          CR2 == <<".", "C", "R", "2">>
          TIF == <<".", "T", "I", "F">>
          TIFF == <<".", "T", "I", "F", "F">>
          JPG == <<".", "J", "P", "G">>
      IN /\ output
         /\ IF ext = CR2 /\ dest = TIF
            THEN converter = "convert_CR2_to_TIF" /\ processedpath # <<>>
            ELSE IF (ext = CR2 \/ ext = TIF \/ ext = TIFF) /\ dest = JPG
            THEN converter = "convertToJPG" /\ processedpath # <<>>
            ELSE converter = "" /\ processedpath = <<>>

\* ---------------------------------------------------------------------------
\* convert_unit_to_meters
\* ---------------------------------------------------------------------------

Dot(u, v) == u[1] * v[1] + u[2] * v[2] + u[3] * v[3]

\* The positions of the markers of a chunk whose number is in a set, in order.
PositionsOf(ms, labels) ==
    LET at == SelectSeq(ms, LAMBDA m : m.label \in labels)
    IN [i \in 1..Len(at) |-> at[i].position]

\* The unit vector along an axis-parallel vector.
Direction(v) ==
    [i \in 1..3 |-> IF v[i] > 0 THEN 1 ELSE IF v[i] < 0 THEN 0 - 1 ELSE 0]

\* C17: when the first two X-bucket markers differ only along X and the first
\* two Z-bucket markers only along Z, the call returns [x, y, z] with x along
\* second minus first X marker, z along second minus first Z marker and
\* y = z cross x, pairwise orthogonal and each of unit length.
C17_AxesOrthonormal ==
    ax_pc = "done" =>
      LET xs == PositionsOf(ax_markers, PaletteAxes.xpos \cup PaletteAxes.xneg)
          zs == PositionsOf(ax_markers, PaletteAxes.zpos \cup PaletteAxes.zneg)
      IN (Len(xs) >= 2 /\ Len(zs) >= 2) =>
           /\ ax_axes.kind = "list"
           /\ Len(ax_axes.axes) = 3
           /\ LET x == ax_axes.axes[1]
                  y == ax_axes.axes[2]
                  z == ax_axes.axes[3]
              IN /\ x = Direction(Sub(xs[2], xs[1]))
                 /\ z = Direction(Sub(zs[2], zs[1]))
                 /\ y = cross(z, x)
                 /\ Dot(x, y) = 0 /\ Dot(y, z) = 0 /\ Dot(x, z) = 0
                 /\ Dot(x, x) = 1 /\ Dot(y, y) = 1 /\ Dot(z, z) = 1

C17_Witness ==
    /\ ax_pc = "done" /\ ax_axes.kind = "list"
    /\ Len(ax_markers) = 4
    /\ ax_markers[1].label = 3 /\ ax_markers[2].label = 1
    /\ ax_markers[1].position[2] # 0
    /\ ax_axes.axes = <<<<0 - 1, 0, 0>>, <<0, 1, 0>>, <<0, 0, 0 - 1>>>>

\* ---------------------------------------------------------------------------
\* thresholdSelectCommand
\* ---------------------------------------------------------------------------

\* The number written by the digits at the start of a text, up to its first
\* comma, spaces left out.
RECURSIVE FirstListed(_, _)
FirstListed(text, sofar) ==
    IF text = <<>> \/ Head(text) = "," THEN sofar
    ELSE IF Head(text) = " " THEN FirstListed(Tail(text), sofar)
    ELSE FirstListed(Tail(text), 10 * sofar + DigitValue(Head(text)))

\* C18: in the "thresholding" mode the threshold handed to thresholdingMask is
\* the configured thresholding_lower_gray_threshold when --thresholds is
\* omitted, and the first value listed when --thresholds is given (120 for
\* --thresholds 120).
C18_ThresholdSelection ==
    (ts_pc = "done" /\ mask_call.routine = "thresholdingMask") =>
      /\ args_type = "thresholding"
      /\ ~args_thresholds.given => mask_call.thresholds = <<config_lower>>
      /\ (args_thresholds.given /\ args_thresholds.text # <<>>)
           => mask_call.thresholds = <<FirstListed(args_thresholds.text, 0)>>
      /\ (args_thresholds.given /\ args_thresholds.text = <<"1", "2", "0">>)
           => mask_call.thresholds = <<120>>

C18_Witness ==
    /\ ts_pc = "done" /\ mask_call.routine = "thresholdingMask"
    /\ args_thresholds.given /\ args_thresholds.text = <<"1", "2", "0">>
    /\ config_lower = 50 /\ mask_call.thresholds = <<120>>

\* ---------------------------------------------------------------------------
\* refine_sparse_cloud, reprojection phase
\* ---------------------------------------------------------------------------

\* C19: the while loop of the reprojection-error phase terminates for every
\* cloud and every configuration, also when an iteration deletes no point.
C19_PhaseTerminates == <>(rf_pc = "done")

\* C20: over the whole phase no more than reprojection_max_selection times
\* the starting point count is deleted, and no iteration deletes more than
\* reprojection_max_selection_per_iteration times the point count at its start.
C20_RemovalWithinBudgets ==
    rf_pc \in {"while", "remove", "optimize", "final", "done"} =>
      /\ (start_points - Len(tie_points)) * FracDen
           <= start_points * reprojection_max_selection
      /\ (iter_points - Len(tie_points)) * FracDen
           <= iter_points * reprojection_max_selection_per_iteration

\* ---------------------------------------------------------------------------
\* refine_sparse_cloud, calls and saves
\* ---------------------------------------------------------------------------

\* C21: whenever optimize_cameras or remove_above_error_threshold is called,
\* the document has been saved since the previous such call, and it has been
\* saved since the last such call when refine_sparse_cloud returns.
C21_SaveAfterEveryStep ==
    /\ ck_followed = ""
    /\ ck_pc = "done" => ck_unsaved = ""

\* ---------------------------------------------------------------------------
\* move_model_to_world_origin
\* ---------------------------------------------------------------------------

\* The point that a 4x4 matrix maps a point to.
Apply(M, v) ==
    [i \in 1..3 |-> M[i][1] * v[1] + M[i][2] * v[2] + M[i][3] * v[3] + M[i][4]]

\* C22: the call translates the transform by the negative of the centre of
\* the recomputed region, so that whatever the transform was, the transform
\* maps the centre of the bounding box to the world origin afterwards; the
\* region is the recomputed one at the end.
C22_CenterAtOrigin ==
    ro_log = <<"move_model_to_world_origin">> =>
      /\ region_center = cloud_center
      /\ transform = MatMul(ro_before.transform, TranslationInv(cloud_center))
      /\ Apply(transform, region_center) = <<0, 0, 0>>

\* ---------------------------------------------------------------------------
\* build_basic_model: the timing event
\* ---------------------------------------------------------------------------

\* C23: the 'model build' timing event that a run starts is ended when the
\* run finishes, whether the run returns or a stage raises; while the run is
\* under way the event is started and not yet ended.
C23_TimingBracketed ==
    /\ result \in {"returned", "raised"} => timing = "ended"
    /\ result = "running" /\ bpc \notin {"finally", "idle", "off"} => timing = "started"

\* ---------------------------------------------------------------------------
\* ptsToClockwiseRect on any four points
\* ---------------------------------------------------------------------------

\* The first of the points of p at which f is smallest.
FirstLeast(p, f(_)) ==
    p[CHOOSE i \in 1..4 : /\ \A j \in 1..4 : f(p[i]) <= f(p[j])
                          /\ \A j \in 1..4 : f(p[j]) = f(p[i]) => i <= j]

PlusXY(q) == q[1] + q[2]
MinusXY(q) == 0 - (q[1] + q[2])
YLessX(q) == q[2] - q[1]
XLessY(q) == q[1] - q[2]

\* C24 as amended: the first output is the input point with the least x+y
\* and the third the one with the greatest x+y; the second output is the
\* input point with the least y-x (the greatest x-y) and the fourth the one
\* with the greatest y-x, each taken over all four input points, the first
\* in input order when several points tie.
C24_CornerRule ==
    oc_pc = "done" =>
      /\ rect[1] = FirstLeast(pts, PlusXY)
      /\ rect[3] = FirstLeast(pts, MinusXY)
      /\ rect[2] = FirstLeast(pts, YLessX)
      /\ rect[4] = FirstLeast(pts, XLessY)

\* A call where the point with the greatest y-x is also the one with the
\* greatest x+y, so that it is none of the "remaining" points, and where two
\* points tie on the least x+y.
C24_Witness ==
    /\ oc_pc = "done"
    /\ pts = <<<<0, 1>>, <<3, 0>>, <<1, 0>>, <<1, 3>>>>
    /\ rect = <<<<0, 1>>, <<3, 0>>, <<1, 3>>, <<1, 3>>>>

\* The points of p other than the first and third corner.
Remaining == {q \in Range(pts) : q # rect[1] /\ q # rect[3]}

\* C24 as stated: the first output has the least x+y and the third the
\* greatest; of the remaining two points the second output has the least x-y
\* and the fourth the greatest x-y.
C24_CornerRuleXLessY ==
    oc_pc = "done" =>
      /\ \A q \in Range(pts) : PlusXY(rect[1]) <= PlusXY(q) /\ PlusXY(rect[3]) >= PlusXY(q)
      /\ rect[2] \in Remaining /\ rect[4] \in Remaining
      /\ \A q \in Remaining : XLessY(rect[2]) <= XLessY(q) /\ XLessY(rect[4]) >= XLessY(q)

\* C26: the result is a permutation of the input: each of the four distinct
\* input points appears exactly once among the four returned corners.
C26_Permutation ==
    oc_pc = "done" =>
      \A q \in Range(pts) : Cardinality({i \in 1..4 : rect[i] = q}) = 1

\* ---------------------------------------------------------------------------
\* reorient_model applied again and again
\* ---------------------------------------------------------------------------

\* The length of the first row of the rotation part of a transform.
FirstRowMagnitude(M) == Magnitude(<<M[1][1], M[1][2], M[1][3]>>)

RECURSIVE Power(_, _)
Power(b, n) == IF n = 0 THEN 1 ELSE b * Power(b, n - 1)

\* The call aligned the model and moved it.
Aligned == ro_log = <<"align_markers_to_axes", "move_model_to_world_origin">>

\* C25: a call that aligns the model leaves the transform (1000*s)*R, moved
\* by the region centre from a zero translation, where s is the length of
\* the first row of the transform before the call and R has the three unit
\* axes as rows; so the scale after n calls on the same markers is 1000^n
\* times the scale the chunk began with, and a second call does not leave
\* the transform as the first one left it.
C25_ScaleCompounds ==
    Aligned =>
      LET s == FirstRowMagnitude(ro_before.transform)
          R == find_axes_from_markers(chunk_markers).axes
          ctr == ro_before.region_center
      IN /\ \A i, j \in 1..3 : transform[i][j] = 1000 * s * R[i][j]
         /\ \A i \in 1..3 :
              /\ R[i][1] * R[i][1] + R[i][2] * R[i][2] + R[i][3] * R[i][3] = 1
              /\ transform[i][4] =
                   0 - 1000 * s * (R[i][1] * ctr[1] + R[i][2] * ctr[2] + R[i][3] * ctr[3])
         /\ transform[4] = <<0, 0, 0, 1>>
         /\ \E t \in Transforms :
              transform[1] = [j \in 1..4 |-> IF j = 4 THEN transform[1][4]
                                ELSE Power(1000, ro_calls) * FirstRowMagnitude(t) * R[1][j]]
         /\ transform # ro_before.transform

\* A second call on the same markers: the scale is a million times the
\* scale of the chunk's first transform.
C25_Witness ==
    /\ Aligned
    /\ ro_calls = 2
    /\ ro_before.transform[1][1] = 2000
    /\ transform[1][1] = 2000000

====
